---- MODULE Spec2Model ----
(***************************************************************************)
(* A model of the caching and aggregation core of sleeper-mcp-server:      *)
(*   PlayerCache  (src/src/player-cache.ts)  the persisted player snapshot *)
(*   SleeperAPI   (src/src/sleeper-api.ts)   the query cache and getPlayers*)
(*   SleeperTools (src/src/tools.ts)         the per-league fan-out        *)
(*                                                                         *)
(* Every await of the source is a step boundary: an action is the effect   *)
(* of one I/O call together with the synchronous continuation that runs    *)
(* when it resolves.  The disk is two paths (players.json and              *)
(* players.json.tmp); a file is a sequence of tokens written chunk by      *)
(* chunk through an open descriptor that follows its file across rename    *)
(* and unlink.                                                             *)
(***************************************************************************)
EXTENDS Integers, Sequences, FiniteSets, TLC

(***************************************************************************)
(* Bounds of the model.                                                    *)
(***************************************************************************)
NumProcs == 2        \* concurrent callers of the player cache
MaxPlayers == 2      \* player ids are 1..MaxPlayers
WriteChunk == 2      \* tokens written by one write call of fs.writeFile
MaxTicks == 2        \* clock ticks after the start of the run
MaxFaults == 1       \* disk errors injected into save

(***************************************************************************)
(* Time.  The clock counts milliseconds and advances in steps of one day   *)
(* while no operation is in flight (an operation is far shorter than one   *)
(* step of the clock).                                                     *)
(***************************************************************************)
CACHE_DURATION == 24 * 60 * 60 * 1000
TickMs == CACHE_DURATION
StartTime == 2 * TickMs
MaxTime == StartTime + MaxTicks * TickMs

Procs == 1..NumProcs
PlayerIds == 1..MaxPlayers

(***************************************************************************)
(* Record sets (Record<string, SleeperPlayer>): a mapping from some player *)
(* ids to records.  The upstream answers with one of Datasets.             *)
(***************************************************************************)
NoMap == <<>>
Datasets ==
  { [i \in 1..n |-> IF i = n THEN "a" ELSE "b"] : n \in 1..MaxPlayers }

(***************************************************************************)
(* File contents.  JSON.stringify writes the entries in ascending id order *)
(* and closes the object; JSON.parse accepts exactly one well-closed       *)
(* object and keeps the last value of a repeated key.                      *)
(***************************************************************************)
End == [id |-> 0, v |-> "}"]
Hole == [id |-> 0, v |-> "0"]
Junk == [id |-> 0, v |-> "#"]
Entry(i, v) == [id |-> i, v |-> v]

RECURSIVE Entries(_, _)
Entries(d, i) ==
  IF i = 0 THEN <<>>
  ELSE IF i \in DOMAIN d THEN Append(Entries(d, i - 1), Entry(i, d[i]))
       ELSE Entries(d, i - 1)

Stringify(d) == Append(Entries(d, MaxPlayers), End)

Parseable(s) ==
  /\ Len(s) >= 1
  /\ s[Len(s)] = End
  /\ \A k \in 1..(Len(s) - 1) : s[k].id \in PlayerIds

LastAt(s, i) == CHOOSE k \in 1..(Len(s) - 1) :
                  /\ s[k].id = i
                  /\ \A j \in (k + 1)..(Len(s) - 1) : s[j].id # i

Parse(s) == [i \in {s[k].id : k \in 1..(Len(s) - 1)} |-> s[LastAt(s, i)].v]

(***************************************************************************)
(* Files and paths.                                                        *)
(***************************************************************************)
NoFile == [exists |-> FALSE, content |-> <<>>, mtime |-> 0]
File(c, t) == [exists |-> TRUE, content |-> c, mtime |-> t]

Max(a, b) == IF a >= b THEN a ELSE b
Min(a, b) == IF a <= b THEN a ELSE b

\* the content after a write of chunk at offset o (a gap reads as NUL bytes)
WriteAt(c, o, chunk) ==
  [k \in 1..Max(Len(c), o + Len(chunk)) |->
     IF k > o /\ k <= o + Len(chunk) THEN chunk[k - o]
     ELSE IF k <= Len(c) THEN c[k]
     ELSE Hole]

\* the next chunk of s after offset o
ChunkAt(s, o) == SubSeq(s, o + 1, Min(Len(s), o + WriteChunk))

cacheFilePath == "players.json"
tempFilePath == "players.json.tmp"
Paths == {cacheFilePath, tempFilePath}

\* fs.rename and fs.unlink on the paths
Rename(d, from, to) ==
  IF from = to THEN d
  ELSE [x \in DOMAIN d |-> IF x = to THEN d[from] ELSE IF x = from THEN NoFile ELSE d[x]]
Unlink(d, path) == [d EXCEPT ![path] = NoFile]

\* an open descriptor follows its file: where the files are after a rename, an unlink
RenameFds(f, from, to) ==
  IF from = to THEN f
  ELSE [q \in DOMAIN f |-> IF f[q] = from THEN to
                           ELSE IF f[q] = to THEN "orphan" ELSE f[q]]
UnlinkFds(f, path) ==
  [q \in DOMAIN f |-> IF f[q] = path THEN "orphan" ELSE f[q]]

IsExpiredAtLimit(t, mtime) == t - mtime >= CACHE_DURATION
IsExpired(t, mtime) == t - mtime > CACHE_DURATION

(***************************************************************************)
(* State.                                                                  *)
(***************************************************************************)
VARIABLES
  now,           \* Date.now()
  disk,          \* the file at each path of the data directory
  playersCache,  \* PlayerCache.playersCache, the in-memory snapshot
  pc,            \* per caller: the await it is suspended at
  op,            \* per caller: the operation it runs
  playersData,   \* per caller: the record set it fetched and saves
  buf,           \* per caller: the file it read in loadPlayersFromCache
  fd,            \* per caller: where the file of its open descriptor is
  off,           \* per caller: bytes written through the descriptor
  result,        \* per caller: what its operation returned
  faults,        \* disk errors injected so far
  disturbed,     \* history: another caller changed the disk, or time passed
  refreshed,     \* history: refreshCache completed and no save since
  cache,         \* SleeperAPI.cache, the query cache: key -> CacheEntry
  cacheDuration, \* SleeperAPI.cacheDuration, in milliseconds
  inflight,      \* per caller: the keys whose fetcher it awaits
  got,           \* per caller: the values its getCached calls returned
  tool,          \* the aggregation running
  apc,           \* where the aggregation is
  leagues,       \* the leagues it discovered
  aggResult,     \* what it returned
  configured,    \* whether process.env.SLEEPER_USER_ID is set
  arg,           \* the rosterId argument of getLeagueRoster (-1: undefined)
  fin,           \* the arguments of the function under evaluation
  fout           \* what it returned

playerVars == <<now, disk, playersCache, pc, op, playersData, buf,
                fd, off, result, faults, disturbed, refreshed>>

queryVars == <<cache, cacheDuration, inflight, got>>

aggVars == <<tool, apc, leagues, aggResult, configured, arg>>

fnVars == <<fin, fout>>

vars == <<playerVars, queryVars, aggVars, fnVars>>

NoCache == [held |-> FALSE, map |-> NoMap, born |-> 0]
Dropped(m, b) == [held |-> FALSE, map |-> NoMap, born |-> 0]
Held(m, b) == [held |-> TRUE, map |-> m, born |-> b]

\* what an operation returned; age is how long before its return the returned
\* snapshot was saved and via is where it came from (history)
None == [kind |-> "none", map |-> NoMap, age |-> 0, via |-> "none"]
Ok(m, b, v) == [kind |-> "ok", map |-> m, age |-> now - b, via |-> v]
Absent(why) == [kind |-> "null", map |-> NoMap, age |-> 0, via |-> why]
Null == Absent("disk")
Err(why) == [kind |-> "error", map |-> NoMap, age |-> 0, via |-> why]
Void == [kind |-> "void", map |-> NoMap, age |-> 0, via |-> "none"]

Resting(p) == pc[p] \in {"idle", "done"}

\* callers other than p that are in an operation see the disk change
Disturb(p) == [q \in Procs |-> disturbed[q] \/ (q # p /\ pc[q] # "idle")]

InitAges == {0, TickMs, 2 * TickMs}

InitFiles ==
  {NoFile}
    \cup {File(Stringify(d), StartTime - a) : d \in Datasets, a \in InitAges}
    \cup {File(<<Junk>>, StartTime - a) : a \in InitAges}

InitPlayers ==
  /\ now = StartTime
  /\ \E f \in InitFiles : disk = [x \in Paths |-> IF x = cacheFilePath THEN f ELSE NoFile]
  /\ playersCache = NoCache
  /\ pc = [p \in Procs |-> "idle"]
  /\ op = [p \in Procs |-> "none"]
  /\ playersData = [p \in Procs |-> NoMap]
  /\ buf = [p \in Procs |-> NoFile]
  /\ fd = [p \in Procs |-> "none"]
  /\ off = [p \in Procs |-> 0]
  /\ result = [p \in Procs |-> None]
  /\ faults = 0
  /\ disturbed = [p \in Procs |-> FALSE]
  /\ refreshed = FALSE

(***************************************************************************)
(* PlayerCache.loadPlayersFromCache, with getCacheStatus inlined where it  *)
(* is awaited (player-cache.ts 43-125).                                    *)
(***************************************************************************)

\* what caller p's operation returns when its last call returned r: a task of
\* the league tasks that catch an error and return null (tools.ts 665-667,
\* 298-300, part_002 1186-1188)
SwallowingOps == {"analysis", "matchup", "waiver"}
\* the operations that call SleeperAPI.getPlayers (sleeper-api.ts 151-176,
\* tools.ts 372-380, part_002 1196)
EnrichingOps == {"getPlayers", "analysis", "roster", "aggPlayers"}

Rethrown(p, r) == r
\* what the task of caller p makes of the outcome r: an aggregation catches
\* the error and returns null (tools.ts 665-667, 298-300); discoverUserLeagues
\* returns the league without a record (tools.ts 128-135)
Returned(p, r) ==
  IF r.kind # "error" THEN r
  ELSE IF op[p] \in SwallowingOps THEN [r EXCEPT !.kind = "null"]
  ELSE IF op[p] = "discover" THEN [r EXCEPT !.kind = "ok"]
  ELSE r

\* loadPlayersFromCache returned r to its caller: SleeperAPI.getPlayers goes on
\* to the upstream on a miss, every other caller gets r
LoadReturns(p, r) ==
  IF op[p] \in EnrichingOps /\ r.kind = "null"
    THEN /\ pc' = [pc EXCEPT ![p] = "fetch"]
         /\ UNCHANGED result
    ELSE /\ pc' = [pc EXCEPT ![p] = "done"]
         /\ result' = [result EXCEPT ![p] = Returned(p, r)]

\* a call of loadPlayersFromCache: lines 91-95, up to the await of fs.stat
EnterCall(p, o) ==
  /\ Resting(p)
  /\ inflight[p] = {}
  /\ op' = [op EXCEPT ![p] = o]
  /\ disturbed' = [disturbed EXCEPT ![p] = FALSE]
  /\ playersData' = [playersData EXCEPT ![p] = NoMap]
  /\ buf' = [buf EXCEPT ![p] = NoFile]
  /\ IF playersCache.held
       THEN /\ pc' = [pc EXCEPT ![p] = "done"]
            /\ result' = [result EXCEPT ![p] = Ok(playersCache.map, playersCache.born, "memory")]
       ELSE /\ pc' = [pc EXCEPT ![p] = "stat"]
            /\ result' = [result EXCEPT ![p] = None]
  /\ UNCHANGED <<now, disk, playersCache, fd, off, faults, refreshed>>
  /\ UNCHANGED queryVars

Enter(p, o) == EnterCall(p, o) /\ UNCHANGED <<aggVars, fnVars>>

loadPlayersFromCache(p) == Enter(p, "load")

getPlayers(p) == Enter(p, "getPlayers")

\* getCacheStatus: fs.stat and the expiry test (lines 45-52, 76-84)
Stat(p) ==
  /\ pc[p] = "stat"
  /\ IF ~disk[cacheFilePath].exists \/ IsExpired(now, disk[cacheFilePath].mtime)
       THEN LoadReturns(p, Null)
       ELSE /\ pc' = [pc EXCEPT ![p] = "statusRead"]
            /\ UNCHANGED result
  /\ UNCHANGED <<now, disk, playersCache, op, playersData, buf, fd, off, faults, disturbed, refreshed>>
  /\ UNCHANGED <<queryVars, aggVars, fnVars>>

\* getCacheStatus: readFile and parse for the count (lines 53-67); the load
\* goes on to its own readFile when the status is not expired (lines 96-101)
StatusRead(p) ==
  /\ pc[p] = "statusRead"
  /\ IF disk[cacheFilePath].exists /\ Parseable(disk[cacheFilePath].content)
       THEN /\ pc' = [pc EXCEPT ![p] = "loadRead"]
            /\ UNCHANGED result
       ELSE LoadReturns(p, Null)
  /\ UNCHANGED <<now, disk, playersCache, op, playersData, buf, fd, off, faults, disturbed, refreshed>>
  /\ UNCHANGED <<queryVars, aggVars, fnVars>>

\* loadPlayersFromCache: readFile and parse; a file that does not parse is
\* deleted and the load returns null (lines 101-114, 122-124).  The file was
\* parsed by getCacheStatus one step earlier, so the deletion needs a third
\* caller to replace the file in between.
LoadRead(p) ==
  /\ pc[p] = "loadRead"
  /\ IF ~disk[cacheFilePath].exists
       THEN LoadReturns(p, Null) /\ UNCHANGED <<buf, disk, fd, disturbed>>
       ELSE IF Parseable(disk[cacheFilePath].content)
         THEN /\ buf' = [buf EXCEPT ![p] = disk[cacheFilePath]]
              /\ pc' = [pc EXCEPT ![p] = "loadSet"]
              /\ UNCHANGED <<result, disk, fd, disturbed>>
         ELSE /\ disk' = Unlink(disk, cacheFilePath)
              /\ fd' = UnlinkFds(fd, cacheFilePath)
              /\ disturbed' = Disturb(p)
              /\ LoadReturns(p, Null)
              /\ UNCHANGED buf
  /\ UNCHANGED <<now, playersCache, op, playersData, off, faults, refreshed>>
  /\ UNCHANGED <<queryVars, aggVars, fnVars>>

\* loadPlayersFromCache: the continuation that fills playersCache (lines 116-121)
LoadSet(p) ==
  /\ pc[p] = "loadSet"
  /\ playersCache' = Held(Parse(buf[p].content), buf[p].mtime)
  /\ LoadReturns(p, Ok(Parse(buf[p].content), buf[p].mtime, "disk"))
  /\ UNCHANGED <<now, disk, op, playersData, buf, fd, off, faults,
                 disturbed, refreshed>>
  /\ UNCHANGED <<queryVars, aggVars, fnVars>>

(***************************************************************************)
(* SleeperAPI.getPlayers after a cache miss (sleeper-api.ts 158-176) and   *)
(* PlayerCache.savePlayersToCache (player-cache.ts 130-183).               *)
(***************************************************************************)

\* client.get('/players/nfl') answers with a record set (lines 160-164)
FetchPlayers(p) ==
  /\ pc[p] = "fetch"
  /\ \E d \in Datasets : playersData' = [playersData EXCEPT ![p] = d]
  /\ pc' = [pc EXCEPT ![p] = "saveMkdir"]
  /\ UNCHANGED <<now, disk, playersCache, op, buf, fd, off, result, faults,
                 disturbed, refreshed>>
  /\ UNCHANGED <<queryVars, aggVars, fnVars>>

\* client.get('/players/nfl') fails: getPlayers throws (lines 173-175)
FetchPlayersFails(p) ==
  /\ pc[p] = "fetch"
  /\ pc' = [pc EXCEPT ![p] = "done"]
  /\ result' = [result EXCEPT ![p] = Returned(p, Err("players"))]
  /\ UNCHANGED <<now, disk, playersCache, op, playersData, buf, fd, off, faults, disturbed, refreshed>>
  /\ UNCHANGED <<queryVars, aggVars, fnVars>>

\* fs.mkdir of the data directory, which exists (line 135); the JSON text is
\* built and fs.writeFile is called (lines 138-150)
SaveMkdir(p) ==
  /\ pc[p] = "saveMkdir"
  /\ pc' = [pc EXCEPT ![p] = "saveOpen"]
  /\ UNCHANGED <<now, disk, playersCache, op, playersData, buf, fd, off, result,
                 faults, disturbed, refreshed>>
  /\ UNCHANGED <<queryVars, aggVars, fnVars>>

\* the path fs.writeFile opens (lines 149-150)
WritePath == tempFilePath

\* fs.writeFile opens the path for writing: the file is created or truncated
SaveOpen(p) ==
  /\ pc[p] = "saveOpen"
  /\ disk' = [disk EXCEPT ![WritePath] = File(<<>>, now)]
  /\ fd' = [fd EXCEPT ![p] = WritePath]
  /\ off' = [off EXCEPT ![p] = 0]
  /\ pc' = [pc EXCEPT ![p] = "saveWrite"]
  /\ disturbed' = IF WritePath = cacheFilePath THEN Disturb(p) ELSE disturbed
  /\ UNCHANGED <<now, playersCache, op, playersData, buf, result, faults,
                 refreshed>>
  /\ UNCHANGED <<queryVars, aggVars, fnVars>>

\* fs.writeFile writes the next chunk through its descriptor and closes the
\* descriptor after the last one; then the file is read back (line 154)
SaveWrite(p) ==
  /\ pc[p] = "saveWrite"
  /\ LET s == Stringify(playersData[p])
         chunk == ChunkAt(s, off[p])
         last == off[p] + Len(chunk) >= Len(s)
     IN /\ IF fd[p] \in Paths
             THEN /\ disk' = [disk EXCEPT ![fd[p]] =
                                File(WriteAt(disk[fd[p]].content, off[p], chunk), now)]
                  /\ disturbed' = IF fd[p] = cacheFilePath THEN Disturb(p) ELSE disturbed
             ELSE UNCHANGED <<disk, disturbed>>
        /\ off' = [off EXCEPT ![p] = off[p] + Len(chunk)]
        /\ fd' = [fd EXCEPT ![p] = IF last THEN "none" ELSE fd[p]]
        /\ pc' = [pc EXCEPT ![p] = IF last THEN "saveVerify" ELSE "saveWrite"]
  /\ UNCHANGED <<now, playersCache, op, playersData, buf, result, faults,
                 refreshed>>
  /\ UNCHANGED <<queryVars, aggVars, fnVars>>

\* the written file is read back and parsed (lines 153-160); fs.rename is called
SaveVerify(p) ==
  /\ pc[p] = "saveVerify"
  /\ pc' = [pc EXCEPT ![p] =
              IF disk[tempFilePath].exists /\ Parseable(disk[tempFilePath].content)
                THEN "saveRename" ELSE "saveCleanup"]
  /\ UNCHANGED <<now, disk, playersCache, op, playersData, buf, fd, off, result,
                 faults, disturbed, refreshed>>
  /\ UNCHANGED <<queryVars, aggVars, fnVars>>

\* fs.rename(tempFilePath, cacheFilePath) (line 162)
SaveRename(p) ==
  /\ pc[p] = "saveRename"
  /\ IF disk[tempFilePath].exists
       THEN /\ disk' = Rename(disk, tempFilePath, cacheFilePath)
            /\ fd' = RenameFds(fd, tempFilePath, cacheFilePath)
            /\ pc' = [pc EXCEPT ![p] = "saveSet"]
            /\ disturbed' = Disturb(p)
            /\ refreshed' = FALSE
       ELSE /\ pc' = [pc EXCEPT ![p] = "saveCleanup"]
            /\ UNCHANGED <<disk, fd, disturbed, refreshed>>
  /\ UNCHANGED <<now, playersCache, op, playersData, buf, off, result, faults>>
  /\ UNCHANGED <<queryVars, aggVars, fnVars>>

\* the continuation of the rename fills playersCache; the save returns and
\* getPlayers returns the fetched record set (player-cache.ts 164-170,
\* sleeper-api.ts 166-172)
SaveSet(p) ==
  /\ pc[p] = "saveSet"
  /\ playersCache' = Held(playersData[p], now)
  /\ result' = [result EXCEPT ![p] = Returned(p, Ok(playersData[p], now, "upstream"))]
  /\ pc' = [pc EXCEPT ![p] = "done"]
  /\ refreshed' = FALSE
  /\ UNCHANGED <<now, disk, op, playersData, buf, fd, off, faults, disturbed>>
  /\ UNCHANGED <<queryVars, aggVars, fnVars>>

\* an awaited disk call of the save rejects (mkdir, writeFile, readFile, rename)
SaveFault(p) ==
  /\ pc[p] \in {"saveMkdir", "saveOpen", "saveWrite", "saveVerify", "saveRename"}
  /\ faults < MaxFaults
  /\ faults' = faults + 1
  /\ fd' = [fd EXCEPT ![p] = "none"]
  /\ pc' = [pc EXCEPT ![p] = "saveCleanup"]
  /\ UNCHANGED <<now, disk, playersCache, op, playersData, buf, off, result,
                 disturbed, refreshed>>
  /\ UNCHANGED <<queryVars, aggVars, fnVars>>

\* the catch block: the temporary file is unlinked and the error rethrown
\* (player-cache.ts 171-182); getPlayers wraps and throws it (sleeper-api.ts 173-175)
SaveCleanup(p) ==
  /\ pc[p] = "saveCleanup"
  /\ disk' = Unlink(disk, tempFilePath)
  /\ fd' = UnlinkFds(fd, tempFilePath)
  /\ result' = [result EXCEPT ![p] = Returned(p, Err("save"))]
  /\ pc' = [pc EXCEPT ![p] = "done"]
  /\ UNCHANGED <<now, playersCache, op, playersData, buf, off, faults,
                 disturbed, refreshed>>
  /\ UNCHANGED <<queryVars, aggVars, fnVars>>

(***************************************************************************)
(* PlayerCache.refreshCache / clearCache (player-cache.ts 246-261), called *)
(* by SleeperAPI.refreshPlayerCache (sleeper-api.ts 209-212).              *)
(***************************************************************************)
refreshCache(p) ==
  /\ Resting(p)
  /\ inflight[p] = {}
  /\ op' = [op EXCEPT ![p] = "refresh"]
  /\ pc' = [pc EXCEPT ![p] = "refreshUnlink"]
  /\ result' = [result EXCEPT ![p] = None]
  /\ disturbed' = [disturbed EXCEPT ![p] = FALSE]
  /\ playersData' = [playersData EXCEPT ![p] = NoMap]
  /\ buf' = [buf EXCEPT ![p] = NoFile]
  /\ UNCHANGED <<now, disk, playersCache, fd, off, faults, refreshed>>
  /\ UNCHANGED <<queryVars, aggVars, fnVars>>

\* clearCache: fs.unlink(cacheFilePath), errors ignored (lines 247-251)
ClearUnlink(p) ==
  /\ pc[p] = "refreshUnlink"
  /\ disk' = Unlink(disk, cacheFilePath)
  /\ fd' = UnlinkFds(fd, cacheFilePath)
  /\ disturbed' = Disturb(p)
  /\ pc' = [pc EXCEPT ![p] = "refreshSet"]
  /\ UNCHANGED <<now, playersCache, op, playersData, buf, off, result, faults, refreshed>>
  /\ UNCHANGED <<queryVars, aggVars, fnVars>>

\* clearCache: this.playersCache = null (line 253); refreshCache returns
ClearSet(p) ==
  /\ pc[p] = "refreshSet"
  /\ playersCache' = NoCache
  /\ result' = [result EXCEPT ![p] = Void]
  /\ pc' = [pc EXCEPT ![p] = "done"]
  /\ refreshed' = TRUE
  /\ UNCHANGED <<now, disk, op, playersData, buf, fd, off, faults, disturbed>>
  /\ UNCHANGED <<queryVars, aggVars, fnVars>>

(***************************************************************************)
(* The environment: the clock.                                             *)
(***************************************************************************)
Tick ==
  /\ \A p \in Procs : Resting(p)
  /\ now < MaxTime
  /\ now' = now + TickMs
  /\ disturbed' = [p \in Procs |-> TRUE]
  /\ UNCHANGED <<disk, playersCache, pc, op, playersData, buf, fd, off, result,
                 faults, refreshed>>
  /\ UNCHANGED <<queryVars, aggVars, fnVars>>

(***************************************************************************)
(* SleeperAPI: the query cache and the Partition Fetcher operations that   *)
(* go through it (sleeper-api.ts 52-67, 112-132).                          *)
(***************************************************************************)
MaxTtlMinutes == 2   \* cacheDurationMinutes is 1..MaxTtlMinutes
MaxQueryTicks == 2   \* minutes the clock advances in the query cache runs
NumQueryLeagues == 1 \* leagues the callers of the query cache runs ask about

userId == "me"
Owners == {userId, "other"}
Points == {0, 100}   \* scores, in tenths of a point

Roster(rid, owner) == [roster_id |-> rid, owner_id |-> owner]
Matchup(rid, mid, pts) == [roster_id |-> rid, matchup_id |-> mid, points |-> pts]

\* the answers of /league/<id>/rosters and /league/<id>/matchups/<week>
RosterLists == {<<>>} \cup {<<Roster(1, a), Roster(2, "other")>> : a \in Owners}
MatchupLists ==
  {<<>>} \cup {<<Matchup(1, 1, x), Matchup(2, m, 0)>> : m \in 1..2, x \in Points}

\* the answers of /league/<id> and /league/<id>/users
LeagueInfos == {<<"league">>}
UserLists == {<<>>}
\* the answers of /user/<id>/leagues/nfl/<season>
UserLeagueLists == {<<>>, <<"leagues">>}

Kinds == {"rosters", "matchups", "league", "league_users", "user_leagues"}
Keys == Kinds \X Procs
Values(k) ==
  CASE k[1] = "rosters" -> RosterLists
    [] k[1] = "matchups" -> MatchupLists
    [] k[1] = "league" -> LeagueInfos
    [] k[1] = "league_users" -> UserLists
    [] k[1] = "user_leagues" -> UserLeagueLists

NoEntry == [has |-> FALSE, data |-> <<>>, timestamp |-> 0, expires_at |-> 0]
\* the entry getCached stores (lines 60-64)
CacheEntry(v, t) ==
  [has |-> TRUE, data |-> v, timestamp |-> t, expires_at |-> t + cacheDuration]
FreshAtLimit(e, t) == e.has /\ t <= e.expires_at
\* the test of getCached (line 55)
Fresh(e, t) == e.has /\ t < e.expires_at

MinOf(S) == CHOOSE x \in S : \A y \in S : x <= y
\* Array.prototype.find: the index of the first element that satisfies Test
FindUserRoster(rs) ==
  LET I == {i \in DOMAIN rs : rs[i].owner_id = userId}
  IN IF I = {} THEN 0 ELSE MinOf(I)
\* rosters.find(roster => roster.roster_id === rosterId) (tools.ts 916)
FindRosterById(rs, rid) ==
  LET I == {i \in DOMAIN rs : rs[i].roster_id = rid}
  IN IF I = {} THEN 0 ELSE MinOf(I)
FindMatchup(ms, rid) ==
  LET I == {i \in DOMAIN ms : ms[i].roster_id = rid}
  IN IF I = {} THEN 0 ELSE MinOf(I)
FindSameMatchup(ms, um) ==
  LET I == {i \in DOMAIN ms : ms[i].matchup_id = ms[um].matchup_id}
  IN IF I = {} THEN 0 ELSE MinOf(I)
\* matchups.find(same matchup_id, different roster_id) (tools.ts 259-262)
FindOpponent(ms, um) ==
  LET I == {i \in DOMAIN ms : /\ ms[i].matchup_id = ms[um].matchup_id
                              /\ ms[i].roster_id # ms[um].roster_id}
  IN IF I = {} THEN 0 ELSE MinOf(I)

Abs(x) == IF x < 0 THEN -x ELSE x
PriorityAtMost(d) == IF d <= 100 THEN 1 ELSE IF d <= 200 THEN 2 ELSE 3
\* tools.ts 268-282, on scores in tenths of a point
Priority(d) == IF d < 100 THEN 1 ELSE IF d < 200 THEN 2 ELSE 3
Competitiveness(d) == IF d < 100 THEN "high" ELSE IF d < 200 THEN "medium" ELSE "low"

\* the per-league body of getCrossLeagueMatchups (tools.ts 246-297): the
\* matchup of the league, or <<>> for null
CrossLeagueMatchup(l, rs, ms) ==
  LET u == FindUserRoster(rs)
      um == IF u = 0 THEN 0 ELSE FindMatchup(ms, rs[u].roster_id)
      om == IF um = 0 THEN 0 ELSE FindOpponent(ms, um)
  IN IF om = 0 THEN <<>>
     ELSE <<[league_id |-> l,
             matchup_id |-> ms[um].matchup_id,
             user_roster_id |-> ms[um].roster_id,
             user_points |-> ms[um].points,
             opponent_points |-> ms[om].points,
             projected_difference |-> ms[um].points - ms[om].points,
             competitiveness |-> Competitiveness(Abs(ms[um].points - ms[om].points)),
             priority |-> Priority(Abs(ms[um].points - ms[om].points)),
             opponent_roster_id |-> ms[om].roster_id]>>

\* where caller p goes on once every getCached call of its operation o has
\* returned, with the values g (by key); via says whether a fetcher ran.  The
\* age of a result is the time since the returned entry was stored.
Resume(p, o, g, via) ==
  CASE o = "query" ->
         /\ pc' = [pc EXCEPT ![p] = "done"]
         /\ result' = [result EXCEPT ![p] =
                         LET k == CHOOSE x \in DOMAIN g : TRUE
                         IN [kind |-> "ok", map |-> g[k],
                             age |-> IF via = "cache" THEN now - cache[k].timestamp
                                                      ELSE 0,
                             via |-> via]]
    [] o = "matchup" ->
         /\ pc' = [pc EXCEPT ![p] = "done"]
         /\ result' = [result EXCEPT ![p] =
                         LET m == CrossLeagueMatchup(p, g[<<"rosters", p>>],
                                                     g[<<"matchups", p>>])
                         IN IF m = <<>>
                              THEN Absent("noMatchup")
                              ELSE [kind |-> "ok", map |-> m, age |-> 0, via |-> via]]
    [] o \in {"discover", "waiver"} ->
         \* tools.ts 110-127, part_002 1170-1185: the league is returned
         /\ pc' = [pc EXCEPT ![p] = "done"]
         /\ result' = [result EXCEPT ![p] =
                         [kind |-> "ok", map |-> NoMap, age |-> 0, via |-> via]]
    [] o = "roster" ->
         \* getLeagueRoster (tools.ts 906-979): all rosters, a text when the
         \* target roster is not found, otherwise enrichPlayers
         IF arg = 0
           THEN /\ pc' = [pc EXCEPT ![p] = "done"]
                /\ result' = [result EXCEPT ![p] =
                                [kind |-> "ok", map |-> NoMap, age |-> 0, via |-> "all"]]
           ELSE IF (IF arg = -1 THEN FindUserRoster(g[<<"rosters", p>>])
                                ELSE FindRosterById(g[<<"rosters", p>>], arg)) = 0
             THEN /\ pc' = [pc EXCEPT ![p] = "done"]
                  /\ result' = [result EXCEPT ![p] = Absent("noRoster")]
             ELSE IF playersCache.held
               THEN /\ pc' = [pc EXCEPT ![p] = "done"]
                    /\ result' = [result EXCEPT ![p] =
                                    Ok(playersCache.map, playersCache.born, "memory")]
               ELSE /\ pc' = [pc EXCEPT ![p] = "stat"]
                    /\ result' = [result EXCEPT ![p] = None]
    [] o = "analysis" ->
         \* tools.ts 653-662 and enrichPlayers 372-380: getPlayers is called
         IF FindUserRoster(g[<<"rosters", p>>]) = 0
           THEN /\ pc' = [pc EXCEPT ![p] = "done"]
                /\ result' = [result EXCEPT ![p] = Absent("noRoster")]
           ELSE IF playersCache.held
             THEN /\ pc' = [pc EXCEPT ![p] = "done"]
                  /\ result' = [result EXCEPT ![p] =
                                  Ok(playersCache.map, playersCache.born, "memory")]
             ELSE /\ pc' = [pc EXCEPT ![p] = "stat"]
                  /\ result' = [result EXCEPT ![p] = None]

\* the values of the fresh entries among the keys ks
Hits(ks) == [k \in {x \in ks : Fresh(cache[x], now)} |-> cache[k].data]

\* caller p starts operation o, which calls getCached for each key of ks
\* (lines 53-59): a fresh entry is returned, otherwise the fetcher is invoked
Call(p, o, ks) ==
  /\ Resting(p)
  /\ inflight[p] = {}
  /\ op' = [op EXCEPT ![p] = o]
  /\ disturbed' = [disturbed EXCEPT ![p] = FALSE]
  /\ playersData' = [playersData EXCEPT ![p] = NoMap]
  /\ buf' = [buf EXCEPT ![p] = NoFile]
  /\ got' = [got EXCEPT ![p] = Hits(ks)]
  /\ inflight' = [inflight EXCEPT ![p] = {k \in ks : ~Fresh(cache[k], now)}]
  /\ IF \A k \in ks : Fresh(cache[k], now)
       THEN Resume(p, o, Hits(ks), "cache")
       ELSE /\ pc' = [pc EXCEPT ![p] = "fetching"]
            /\ result' = [result EXCEPT ![p] = None]
  /\ UNCHANGED <<now, disk, playersCache, fd, off, faults, refreshed, cache,
                 cacheDuration>>

\* getLeagueRosters(l) (lines 112-119)
getLeagueRosters(p) ==
  /\ \E l \in 1..NumQueryLeagues : Call(p, "query", {<<"rosters", l>>})
  /\ UNCHANGED <<aggVars, fnVars>>

\* getMatchups(l, week) (lines 125-132)
getMatchups(p) ==
  /\ \E l \in 1..NumQueryLeagues : Call(p, "query", {<<"matchups", l>>})
  /\ UNCHANGED <<aggVars, fnVars>>

\* getUserLeagues(userId, season) (lines 86-93)
getUserLeagues(p) ==
  /\ \E l \in 1..NumQueryLeagues : Call(p, "query", {<<"user_leagues", l>>})
  /\ UNCHANGED <<aggVars, fnVars>>

\* getLeague(l) (lines 99-106)
getLeague(p) ==
  /\ \E l \in 1..NumQueryLeagues : Call(p, "query", {<<"league", l>>})
  /\ UNCHANGED <<aggVars, fnVars>>

\* getLeagueUsers(l) (lines 138-145)
getLeagueUsers(p) ==
  /\ \E l \in 1..NumQueryLeagues : Call(p, "query", {<<"league_users", l>>})
  /\ UNCHANGED <<aggVars, fnVars>>

StoredIfAbsent(c, k, v, t) ==
  IF Fresh(c[k], t) THEN c ELSE [c EXCEPT ![k] = CacheEntry(v, t)]
\* this.cache.set(key, ...) once the fetcher has returned v (lines 60-64)
Stored(c, k, v, t) == [c EXCEPT ![k] = CacheEntry(v, t)]

\* a fetcher of caller p returns: the entry is stored (lines 59-66) and the
\* operation goes on when it awaits no other call
FetcherReturns(p) ==
  /\ \E k \in inflight[p] : \E v \in Values(k) :
       /\ cache' = Stored(cache, k, v, now)
       /\ inflight' = [inflight EXCEPT ![p] = inflight[p] \ {k}]
       /\ IF pc[p] = "fetching"
            THEN /\ got' = [got EXCEPT ![p] = (k :> v) @@ got[p]]
                 /\ IF inflight[p] = {k}
                      THEN Resume(p, op[p], (k :> v) @@ got[p], "upstream")
                      ELSE UNCHANGED <<pc, result>>
            ELSE UNCHANGED <<got, pc, result>>
  /\ UNCHANGED <<now, disk, playersCache, op, playersData, buf, fd, off, faults,
                 disturbed, refreshed, cacheDuration, aggVars, fnVars>>

NegativeEntry(c, k) ==
  [c EXCEPT ![k] = [has |-> TRUE, data |-> <<>>, timestamp |-> 0, expires_at |-> 0]]
\* the cache map after the fetcher threw: lines 60-64 are not reached
AfterThrow(c, k) == c

Reissued(s, k) == s
\* the requests a call still awaits once its request for k has failed:
\* the rejection of client.get leaves the fetcher at once (lines 59, 89-92)
Abandoned(s, k) == s \ {k}

\* a fetcher of caller p throws: getCached throws, and so does the operation
\* (Promise.all rejects at the first failure, tools.ts 241-244)
FetcherThrows(p) ==
  /\ \E k \in inflight[p] :
       /\ cache' = AfterThrow(cache, k)
       /\ inflight' = [inflight EXCEPT ![p] = Abandoned(inflight[p], k)]
  /\ IF pc[p] = "fetching"
       THEN /\ pc' = [pc EXCEPT ![p] = "done"]
            /\ result' = [result EXCEPT ![p] = Returned(p, Err("fetch"))]
       ELSE UNCHANGED <<pc, result>>
  /\ UNCHANGED <<now, disk, playersCache, op, playersData, buf, fd, off, faults,
                 disturbed, refreshed, cacheDuration, got, aggVars, fnVars>>

ClearedOne(c) ==
  IF \E k \in Keys : c[k].has
    THEN [c EXCEPT ![CHOOSE k \in Keys : c[k].has] = NoEntry]
    ELSE c
\* this.cache.clear() (line 218)
Cleared(c) == [k \in Keys |-> NoEntry]

clearAllCaches ==
  /\ \E k \in Keys : cache[k].has
  /\ cache' = Cleared(cache)
  /\ playersCache' = NoCache
  /\ UNCHANGED <<now, disk, pc, op, playersData, buf, fd, off, result, faults,
                 disturbed, refreshed>>
  /\ UNCHANGED <<cacheDuration, inflight, got, aggVars, fnVars>>
\* SleeperAPI.clearCache (lines 217-219)
clearCache ==
  /\ \E k \in Keys : cache[k].has
  /\ cache' = Cleared(cache)
  /\ UNCHANGED <<playerVars, cacheDuration, inflight, got, aggVars, fnVars>>

\* the clock of the query cache runs advances by minutes
QueryTickMs == 60 * 1000
QueryTick ==
  /\ now < StartTime + MaxQueryTicks * QueryTickMs
  /\ now' = now + QueryTickMs
  /\ UNCHANGED <<disk, playersCache, pc, op, playersData, buf, fd, off, result,
                 faults, disturbed, refreshed, queryVars, aggVars, fnVars>>

(***************************************************************************)
(* SleeperTools: the tools that fan out over the leagues, one task per     *)
(* league: discoverUserLeagues (tools.ts 85-205), getCrossLeagueMatchups   *)
(* (tools.ts 212-367), getMultiRosterAnalysis (tools.ts 626-750),          *)
(* getWaiverTargets (part_002 1144-1459); and getLeagueRoster (tools.ts    *)
(* 890-1072), which works on one league.                                   *)
(***************************************************************************)
Tools == {"discoverUserLeagues", "getCrossLeagueMatchups",
          "getMultiRosterAnalysis", "getLeagueRoster", "getWaiverTargets"}
\* the rosterId argument: undefined, all rosters, a roster, an unknown roster
RosterIdArgs == {-1, 0, 1, 3}

\* the message of the upstream failure (sleeper-api.ts 35-46)
Cause == "No response from Sleeper API"
\* the messages of the errors the save can throw (player-cache.ts 145, 159)
SaveCause == "Cache file is corrupted after writing"

\* the message of the error SleeperAPI.getPlayers throws (sleeper-api.ts 174)
GetPlayersMessage(via) ==
  <<"Unable to fetch player data from Sleeper API",
    IF via = "players" THEN Cause ELSE SaveCause>>
\* the message of the error enrichPlayers throws instead (tools.ts 376-378)
EnrichMessage == <<"Player cache needs to be refreshed">>
\* the message of the error that reaches the catch of the tool, by the
\* operation that threw and the await that failed
TaskMessage(o, via) ==
  IF via = "fetch" THEN <<Cause>>
  ELSE IF o = "aggPlayers" THEN GetPlayersMessage(via)
  ELSE EnrichMessage
ToolErrorWithoutCause(t, msg) ==
  [kind |-> "error", included |-> {}, message |-> <<t>>, order |-> <<>>]
\* the error the tool throws (tools.ts 204, 365, 748, 1070, part_002 1458)
ToolError(t, msg) ==
  [kind |-> "error", included |-> {}, message |-> <<t>> \o msg, order |-> <<>>]
ToolResult(ls) == [kind |-> "ok", included |-> ls, message |-> <<>>, order |-> <<>>]
NoResult == [kind |-> "none", included |-> {}, message |-> <<>>, order |-> <<>>]

\* the operation of the league task of each tool
TaskOp(t) ==
  CASE t = "discoverUserLeagues" -> "discover"
    [] t = "getCrossLeagueMatchups" -> "matchup"
    [] t = "getMultiRosterAnalysis" -> "analysis"
    [] t = "getLeagueRoster" -> "roster"
    [] t = "getWaiverTargets" -> "waiver"
\* the getCached calls a league task starts with (tools.ts 111, 241-244, 652,
\* 899-903, part_002 1171)
TaskKeys(t, l) ==
  CASE t = "getCrossLeagueMatchups" -> {<<"matchups", l>>, <<"rosters", l>>}
    [] t = "getLeagueRoster" ->
         {<<"league", l>>, <<"rosters", l>>, <<"league_users", l>>}
    [] OTHER -> {<<"rosters", l>>}

UserIdNeverMissing == FALSE
\* the test of the user id at the head of each tool (tools.ts 90, 217, 631,
\* 894, part_002 1149)
UserIdMissing == ~configured

\* the tool is called: without a user id it throws (tools.ts 88-92, 215-219,
\* 629-633, 892-897, part_002 1147-1151); otherwise getUserLeagues is awaited
\* (tools.ts 94, 225, 636), or the league of getLeagueRoster is fetched
Invoke ==
  /\ apc = "idle"
  /\ \E t \in Tools :
       /\ tool' = t
       /\ IF UserIdMissing
            THEN /\ apc' = "done"
                 /\ aggResult' = ToolError(t, <<"User ID not configured">>)
                 /\ UNCHANGED <<leagues, arg>>
            ELSE IF t = "getLeagueRoster"
              THEN /\ apc' = "fanout"
                   /\ \E l \in Procs : leagues' = {l}
                   /\ \E a \in RosterIdArgs : arg' = a
                   /\ UNCHANGED aggResult
              ELSE /\ apc' = "discover"
                   /\ UNCHANGED <<leagues, aggResult, arg>>
  /\ UNCHANGED <<playerVars, queryVars, configured, fnVars>>

\* getUserLeagues returns the leagues; with none the tool returns a text
\* (tools.ts 638-647), otherwise the tasks are created (tools.ts 650)
DiscoveryReturns ==
  /\ apc = "discover"
  /\ \E ls \in SUBSET Procs :
       /\ leagues' = ls
       /\ IF ls = {}
            THEN apc' = "done" /\ aggResult' = ToolResult({})
            ELSE apc' = "fanout" /\ UNCHANGED aggResult
  /\ UNCHANGED <<playerVars, queryVars, tool, configured, arg, fnVars>>

\* getUserLeagues throws: the tool throws (tools.ts 747-749, 364-366)
DiscoveryFails ==
  /\ apc = "discover"
  /\ apc' = "done"
  /\ aggResult' = ToolError(tool, <<Cause>>)
  /\ UNCHANGED <<playerVars, queryVars, tool, leagues, configured, arg, fnVars>>

\* the task of league l starts (tools.ts 650-652, 239-244)
TaskStart(l) ==
  /\ apc = "fanout"
  /\ l \in leagues
  /\ pc[l] = "idle"
  /\ Call(l, TaskOp(tool), TaskKeys(tool, l))
  /\ UNCHANGED <<aggVars, fnVars>>

\* the discovered leagues, in the order of the list getUserLeagues returned
RECURSIVE Ascending(_)
Ascending(S) == IF S = {} THEN <<>> ELSE <<MinOf(S)>> \o Ascending(S \ {MinOf(S)})

\* Promise.all keeps the order of the tasks, whichever settles first; the
\* null results are filtered out (tools.ts 304-307)
IsValid(l) == result[l].kind = "ok"
ValidMatchups == SelectSeq(Ascending(leagues), IsValid)

\* the priority of the matchup of league l (tools.ts 272-282)
PriorityOf(l) == result[l].map[1].priority

InsertBeforeTies(x, s) ==
  LET n == Cardinality({i \in DOMAIN s : PriorityOf(s[i]) < PriorityOf(x)})
  IN SubSeq(s, 1, n) \o <<x>> \o SubSeq(s, n + 1, Len(s))
\* where the sort puts x in the sorted s: behind every element the
\* comparator a.priority - b.priority does not rank after x (tools.ts 308)
Insert(x, s) ==
  LET n == Cardinality({i \in DOMAIN s : PriorityOf(s[i]) <= PriorityOf(x)})
  IN SubSeq(s, 1, n) \o <<x>> \o SubSeq(s, n + 1, Len(s))

\* validMatchups.sort((a, b) => a.priority - b.priority): Array.prototype.sort
\* is stable (tools.ts 308)
RECURSIVE SortByPriority(_)
SortByPriority(s) ==
  IF s = <<>> THEN <<>>
  ELSE Insert(s[Len(s)], SortByPriority(SubSeq(s, 1, Len(s) - 1)))

JoinWhenAllValid ==
  /\ apc = "fanout"
  /\ tool # "getWaiverTargets"
  /\ \A l \in leagues : pc[l] = "done" /\ result[l].kind = "ok"
  /\ apc' = "done"
  /\ aggResult' = ToolResult(leagues)
  /\ UNCHANGED <<playerVars, queryVars, tool, leagues, configured, arg, fnVars>>
\* Promise.all of the tasks resolves; the null results are filtered out
\* (tools.ts 671-672, 304-307); getLeagueRoster has no task of its own: an
\* error of its awaits is thrown by the tool (tools.ts 1069-1071)
Join ==
  /\ apc = "fanout"
  /\ tool # "getWaiverTargets"
  /\ \A l \in leagues : pc[l] = "done"
  /\ apc' = "done"
  /\ aggResult' =
       IF \E l \in leagues : result[l].kind = "error"
         THEN LET l == CHOOSE x \in leagues : result[x].kind = "error"
              IN ToolError(tool, TaskMessage(op[l], result[l].via))
         ELSE [ToolResult({l \in leagues : result[l].kind = "ok"})
                 EXCEPT !.order = IF tool = "getCrossLeagueMatchups"
                                    THEN SortByPriority(ValidMatchups)
                                    ELSE <<>>]
  /\ UNCHANGED <<playerVars, queryVars, tool, leagues, configured, arg, fnVars>>

\* the caller that carries on with the awaits of the tool after the tasks
Carrier == MinOf(leagues)

\* getWaiverTargets: Promise.all of the tasks resolves, the null results are
\* filtered out and getPlayers is called (part_002 1192-1196)
WaiverJoin ==
  /\ apc = "fanout"
  /\ tool = "getWaiverTargets"
  /\ \A l \in leagues : pc[l] = "done"
  /\ apc' = "players"
  /\ aggResult' = [kind |-> "pending",
                   included |-> {l \in leagues : result[l].kind = "ok"},
                   message |-> <<>>, order |-> <<>>]
  /\ EnterCall(Carrier, "aggPlayers")
  /\ UNCHANGED <<tool, leagues, configured, arg, fnVars>>

\* getWaiverTargets: getPlayers returned or threw; getTrendingPlayers is
\* awaited next (part_002 1196-1200, 1457-1459)
WaiverPlayers ==
  /\ apc = "players"
  /\ pc[Carrier] = "done"
  /\ IF result[Carrier].kind = "error"
       THEN /\ apc' = "done"
            /\ aggResult' = ToolError(tool, TaskMessage("aggPlayers", result[Carrier].via))
       ELSE /\ apc' = "trending"
            /\ UNCHANGED aggResult
  /\ UNCHANGED <<playerVars, queryVars, tool, leagues, configured, arg, fnVars>>

\* getWaiverTargets: getTrendingPlayers returns and the targets are computed
\* (part_002 1200-1456)
TrendingReturns ==
  /\ apc = "trending"
  /\ apc' = "done"
  /\ aggResult' = ToolResult(aggResult.included)
  /\ UNCHANGED <<playerVars, queryVars, tool, leagues, configured, arg, fnVars>>

\* getWaiverTargets: getTrendingPlayers throws (part_002 1200, 1457-1459)
TrendingFails ==
  /\ apc = "trending"
  /\ apc' = "done"
  /\ aggResult' = ToolError(tool, <<Cause>>)
  /\ UNCHANGED <<playerVars, queryVars, tool, leagues, configured, arg, fnVars>>

PlayerStep(p) ==
  \/ loadPlayersFromCache(p)
  \/ getPlayers(p)
  \/ Stat(p)
  \/ StatusRead(p)
  \/ LoadRead(p)
  \/ LoadSet(p)
  \/ FetchPlayers(p)
  \/ FetchPlayersFails(p)
  \/ SaveMkdir(p)
  \/ SaveOpen(p)
  \/ SaveWrite(p)
  \/ SaveVerify(p)
  \/ SaveRename(p)
  \/ SaveSet(p)
  \/ SaveFault(p)
  \/ SaveCleanup(p)
  \/ refreshCache(p)
  \/ ClearUnlink(p)
  \/ ClearSet(p)

QueryStep(p) ==
  \/ getLeagueRosters(p)
  \/ getMatchups(p)
  \/ FetcherReturns(p)
  \/ FetcherThrows(p)

DefaultCacheMinutes == 5

InitQuery ==
  /\ cache = [k \in Keys |-> NoEntry]
  /\ cacheDuration = DefaultCacheMinutes * 60 * 1000
  /\ inflight = [p \in Procs |-> {}]
  /\ got = [p \in Procs |-> <<>>]

NoInput == [fn |-> "none"]
NoOutput == [fn |-> "none"]
InitFn ==
  /\ fin = NoInput
  /\ fout = NoOutput

InitAgg ==
  /\ tool = "none"
  /\ apc = "idle"
  /\ leagues = {}
  /\ aggResult = NoResult
  /\ configured = TRUE
  /\ arg = -1

(***************************************************************************)
(* Spec: the callers use the player cache.                                 *)
(***************************************************************************)
Init == InitPlayers /\ InitQuery /\ InitAgg /\ InitFn

Next ==
  \/ \E p \in Procs : PlayerStep(p)
  \/ Tick

Spec == Init /\ [][Next]_vars

(***************************************************************************)
(* SpecQuery: the callers use the query cache, for every cache duration.   *)
(***************************************************************************)
InitQueryRuns ==
  /\ now = StartTime
  /\ disk = [x \in Paths |-> NoFile]
  /\ playersCache = NoCache
  /\ pc = [p \in Procs |-> "idle"]
  /\ op = [p \in Procs |-> "none"]
  /\ playersData = [p \in Procs |-> NoMap]
  /\ buf = [p \in Procs |-> NoFile]
  /\ fd = [p \in Procs |-> "none"]
  /\ off = [p \in Procs |-> 0]
  /\ result = [p \in Procs |-> None]
  /\ faults = 0
  /\ disturbed = [p \in Procs |-> FALSE]
  /\ refreshed = FALSE
  /\ cache = [k \in Keys |-> NoEntry]
  /\ \E m \in 1..MaxTtlMinutes : cacheDuration = m * 60 * 1000
  /\ inflight = [p \in Procs |-> {}]
  /\ got = [p \in Procs |-> <<>>]
  /\ InitAgg
  /\ InitFn

NextQuery ==
  \/ \E p \in Procs : QueryStep(p)
  \/ clearCache
  \/ QueryTick

SpecQuery == InitQueryRuns /\ [][NextQuery]_vars

(***************************************************************************)
(* SpecFetch: the callers use the five operations that go through          *)
(* getCached, each of which may answer or fail.                            *)
(***************************************************************************)
FetchStep(p) ==
  \/ getUserLeagues(p)
  \/ getLeague(p)
  \/ getLeagueRosters(p)
  \/ getMatchups(p)
  \/ getLeagueUsers(p)
  \/ FetcherReturns(p)
  \/ FetcherThrows(p)

NextFetch == \E p \in Procs : FetchStep(p)

SpecFetch == InitQueryRuns /\ [][NextFetch]_vars

(***************************************************************************)
(* SpecAgg: one aggregation over the leagues, on any state of the disk.    *)
(***************************************************************************)
TaskStep(l) ==
  \/ TaskStart(l)
  \/ FetcherReturns(l)
  \/ FetcherThrows(l)
  \/ Stat(l)
  \/ StatusRead(l)
  \/ LoadRead(l)
  \/ LoadSet(l)
  \/ FetchPlayers(l)
  \/ FetchPlayersFails(l)
  \/ SaveMkdir(l)
  \/ SaveOpen(l)
  \/ SaveWrite(l)
  \/ SaveVerify(l)
  \/ SaveRename(l)
  \/ SaveSet(l)
  \/ SaveCleanup(l)

NextAgg ==
  \/ Invoke
  \/ DiscoveryReturns
  \/ DiscoveryFails
  \/ \E l \in Procs : TaskStep(l)
  \/ Join
  \/ WaiverJoin
  \/ WaiverPlayers
  \/ TrendingReturns
  \/ TrendingFails

\* the tool is called once, with or without a configured user id
InitAggRuns ==
  /\ InitPlayers
  /\ InitQuery
  /\ tool = "none"
  /\ apc = "idle"
  /\ leagues = {}
  /\ aggResult = NoResult
  /\ configured \in BOOLEAN
  /\ arg = -1
  /\ InitFn

SpecAgg == InitAggRuns /\ [][NextAgg]_vars

(***************************************************************************)
(* Properties of the player cache.                                         *)
(***************************************************************************)
Canon == disk[cacheFilePath]

\* what a new PlayerCache instance loads from the disk d at time t
FreshLoad(d, t) ==
  IF d[cacheFilePath].exists /\ ~IsExpired(t, d[cacheFilePath].mtime)
       /\ Parseable(d[cacheFilePath].content)
    THEN [kind |-> "ok", map |-> Parse(d[cacheFilePath].content)]
    ELSE [kind |-> "null", map |-> NoMap]

SavePcs == {"saveMkdir", "saveOpen", "saveWrite", "saveVerify", "saveRename",
            "saveCleanup"}

\* caller p takes a step of its save other than the rename that succeeds and
\* the continuation of that rename
FailingSaveStep(p) ==
  /\ pc[p] \in SavePcs
  /\ pc'[p] # pc[p] \/ off'[p] # off[p]
  /\ pc'[p] # "saveSet"

\* C1: a save that fails before its rename leaves the persisted snapshot and
\* the in-memory snapshot as they were, and its caller gets the error.
C1_FailedSaveLeavesSnapshot ==
  [][\A p \in Procs :
       /\ FailingSaveStep(p) =>
            /\ disk'[cacheFilePath] = disk[cacheFilePath]
            /\ playersCache' = playersCache
       /\ pc[p] = "saveCleanup" /\ pc'[p] = "done" =>
            result'[p].kind = "error"]_vars

\* caller p takes a step of its load that reads the canonical file
LoadReadsFile(p) ==
  /\ pc[p] \in {"statusRead", "loadRead"}
  /\ pc'[p] # pc[p]
  /\ Canon.exists

\* C2: a load never reads a partially written canonical file: what it reads
\* is a complete snapshot, or the corrupt file the run started with.
C2_NoPartialCanonicalFile ==
  [][\A p \in Procs : LoadReadsFile(p) =>
       Parseable(Canon.content) \/ Canon.content = <<Junk>>]_vars

\* C3: when a save of R succeeds (and no other caller changed the canonical
\* file meanwhile), the in-memory snapshot is R and a new instance loads R
\* from the disk.
C3_SaveLoadRoundTrip ==
  [][\A p \in Procs : pc[p] = "saveSet" /\ pc'[p] = "done" /\ ~disturbed[p] =>
       /\ playersCache'.held /\ playersCache'.map = playersData[p]
       /\ FreshLoad(disk', now') = [kind |-> "ok", map |-> playersData[p]]]_vars

\* a load of caller p that went to the disk has returned, undisturbed
DiskLoadDone(p) ==
  /\ \/ pc[p] = "done" /\ op[p] = "load" /\ result[p].via = "disk"
     \/ pc[p] = "fetch"
  /\ ~disturbed[p]

LoadResult(p) == IF pc[p] = "fetch" THEN Null ELSE result[p]

\* C7: with no in-memory snapshot, the load returns absent exactly when the
\* file is missing, unparseable or modified more than 24 hours ago, and
\* otherwise the mapping stored in the file.
C7_LoadAbsentIff ==
  \A p \in Procs : DiskLoadDone(p) =>
    LET absent == \/ ~Canon.exists
                  \/ ~Parseable(Canon.content)
                  \/ now - Canon.mtime > 24 * 60 * 60 * 1000
    IN /\ LoadResult(p).kind = "null" <=> absent
       /\ LoadResult(p).kind = "ok" => LoadResult(p).map = Parse(Canon.content)

C7_Witness ==
  \E p \in Procs :
    /\ DiskLoadDone(p)
    /\ result[p].kind = "ok"
    /\ now - Canon.mtime = 24 * 60 * 60 * 1000

\* C8: a load that found an unparseable file (one recent enough to be read)
\* has deleted it when it returns absent.
C8_CorruptFileDeleted ==
  \A p \in Procs :
    DiskLoadDone(p) /\ LoadResult(p).kind = "null" =>
      ~(Canon.exists /\ now - Canon.mtime <= 24 * 60 * 60 * 1000
          /\ ~Parseable(Canon.content))

\* C9: once refreshCache has completed, and until a save succeeds, the
\* persisted file is gone and no in-memory snapshot is held.
C9_RefreshInvalidates ==
  refreshed => ~Canon.exists /\ ~playersCache.held

\* C10: a snapshot returned by loadPlayersFromCache or getPlayers was saved at
\* most 24 hours before it is returned.
C10_SnapshotAtMostOneDayOld ==
  \A p \in Procs :
    op[p] \in {"load", "getPlayers"} /\ result[p].kind = "ok" =>
      result[p].age <= 24 * 60 * 60 * 1000


(***************************************************************************)
(* Properties of the query cache (SpecQuery).                              *)
(***************************************************************************)

\* a step in which caller p makes a getCached call that ends at once in a
\* return of a stored value or in the invocation of the fetcher
GetCachedStep(p) ==
  /\ Resting(p)
  /\ op'[p] = "query"
  /\ \/ pc'[p] = "fetching"
     \/ /\ pc'[p] = "done"
        /\ result'[p].via = "cache"
        /\ result'[p] # result[p] \/ pc[p] = "idle"

\* C4: for every cache duration t and key k for which an entry is stored, a
\* getCached call returns the stored value without invoking the fetcher when
\* the time elapsed since the entry was stored is < t, and invokes the
\* fetcher when the elapsed time is >= t.
C4_TtlHitAndExpiry ==
  [][\A p \in Procs : GetCachedStep(p) =>
       \A k \in (DOMAIN got'[p]) \cup inflight'[p] : cache[k].has =>
         IF now - cache[k].timestamp < cacheDuration
           THEN /\ pc'[p] = "done"
                /\ inflight'[p] = {}
                /\ result'[p].kind = "ok"
                /\ result'[p].map = cache[k].data
           ELSE /\ pc'[p] = "fetching"
                /\ k \in inflight'[p]]_vars

\* a stored value was returned a minute after it was stored, while another
\* caller's fetcher runs for an entry that is exactly one cache duration old
C4_Witness ==
  /\ \E p \in Procs : /\ op[p] = "query" /\ pc[p] = "done"
                      /\ result[p].via = "cache" /\ result[p].age > 0
  /\ \E q \in Procs : /\ op[q] = "query" /\ pc[q] = "fetching"
                      /\ \E k \in inflight[q] :
                           /\ cache[k].has
                           /\ now - cache[k].timestamp = cacheDuration

\* a step in which a fetcher of caller p fails while p awaits it
FetcherFailureStep(p) ==
  /\ pc[p] = "fetching"
  /\ op[p] = "query"
  /\ inflight'[p] # inflight[p]
  /\ got'[p] = got[p]

\* C5: when the fetcher of a getCached call fails, the call fails and the
\* cache map is exactly what it was before.
C5_FetcherFailurePropagatesUncached ==
  [][\A p \in Procs : FetcherFailureStep(p) =>
       /\ pc'[p] = "done"
       /\ result'[p].kind = "error"
       /\ cache' = cache]_vars

\* a call failed while the cache holds an entry
C5_Witness ==
  \E p \in Procs : /\ op[p] = "query" /\ pc[p] = "done"
                   /\ result[p].kind = "error"
                   /\ \E k \in Keys : cache[k].has

(***************************************************************************)
(* Properties of the aggregation (SpecAgg).                                *)
(***************************************************************************)

HasRoster(l) ==
  /\ <<"rosters", l>> \in DOMAIN got[l]
  /\ FindUserRoster(got[l][<<"rosters", l>>]) # 0

\* C6, for getMultiRosterAnalysis when the player dataset is answered
\* upstream every time: when the tool returns, the result holds exactly the
\* leagues whose roster fetch did not fail and in which the principal has a
\* roster.
C6_ExactlyTheNonFailingLeagues ==
  /\ apc = "done"
  /\ tool = "getMultiRosterAnalysis"
  /\ aggResult.kind = "ok"
  /\ \A l \in leagues : result[l].via # "players"
  => aggResult.included =
       {l \in leagues : result[l].via # "fetch" /\ HasRoster(l)}

\* the task of league l got the dataset upstream and its save reported success
SaveSucceeded(l) ==
  /\ op[l] = "analysis"
  /\ pc[l] = "done"
  /\ result[l].kind = "ok"
  /\ result[l].via = "upstream"

\* C11: when the concurrent saves of one aggregation have completed and one
\* of them reported success, the in-memory snapshot and the persisted file
\* hold the same record set, that of a save that reported success.
C11_OneCurrentSnapshot ==
  /\ apc = "done"
  /\ \E l \in leagues : SaveSucceeded(l)
  => /\ playersCache.held
     /\ Canon.exists
     /\ Parseable(Canon.content)
     /\ Parse(Canon.content) = playersCache.map
     /\ \E l \in leagues : SaveSucceeded(l) /\ result[l].map = playersCache.map

Range(f) == {f[i] : i \in DOMAIN f}

\* the getPlayers call of caller p failed: the dataset could neither be loaded
\* from the cache nor fetched upstream
DatasetUnavailable(p) ==
  /\ op[p] \in EnrichingOps
  /\ pc[p] = "done"
  /\ result[p].via = "players"

\* C12: when the player dataset can neither be loaded nor fetched upstream
\* in a tool that needs it (getMultiRosterAnalysis, getLeagueRoster,
\* getWaiverTargets), the tool fails with an error whose message holds the
\* message of the cause.
C12_DatasetFailureIsFatal ==
  /\ apc = "done"
  /\ \E l \in leagues : DatasetUnavailable(l)
  => /\ aggResult.kind = "error"
     /\ Cause \in Range(aggResult.message)

\* C13: a tool called while no user id is configured fails with the
\* configuration error in the step of the call: no upstream request is
\* issued, no cache and no file is touched, and the result holds no league.
C13_MissingUserIdFailsFirst ==
  [][apc = "idle" /\ apc' # "idle" /\ ~configured =>
       /\ apc' = "done"
       /\ aggResult'.kind = "error"
       /\ "User ID not configured" \in Range(aggResult'.message)
       /\ aggResult'.included = {}
       /\ UNCHANGED <<playerVars, queryVars>>]_vars

\* getLeagueRoster was called without a configured user id and has thrown
C13_Witness ==
  /\ ~configured
  /\ tool = "getLeagueRoster"
  /\ apc = "done"
  /\ aggResult.kind = "error"

(***************************************************************************)
(* The win percentages of discoverUserLeagues (tools.ts 140-170) and       *)
(* formatAllRosters (tools.ts 853), on JavaScript numbers: a number is a   *)
(* fraction, or NaN.                                                       *)
(***************************************************************************)
MaxGames == 2   \* wins and losses are 0..MaxGames

NaN == [nan |-> TRUE, num |-> 0, den |-> 0]
Number(n, d) == [nan |-> FALSE, num |-> n, den |-> d]
\* a / b of two non-negative integers: 0 / 0 is NaN, n / 0 is Infinity
\* (the fraction n over 0)
Divide(a, b) == IF a = 0 /\ b = 0 THEN NaN ELSE Number(a, b)
\* x * 100
Times100(x) == IF x.nan THEN NaN ELSE Number(x.num * 100, x.den)
\* x - y of two finite numbers or NaN
Minus(x, y) ==
  IF x.nan \/ y.nan THEN NaN
  ELSE Number(x.num * y.den - y.num * x.den, x.den * y.den)
\* a || 1
OrOne(a) == IF a = 0 THEN 1 ELSE a

Records == [wins : 0..MaxGames, losses : 0..MaxGames]

\* the comparator of the sort of the leagues, for two leagues of the same
\* status that both have a record (tools.ts 147-151)
CompareWinPct(a, b) ==
  Minus(Divide(b.wins, b.wins + b.losses), Divide(a.wins, a.wins + a.losses))
\* the overall percentage over the leagues that have a record (tools.ts 161-170)
OverallWinPct(a, b) ==
  Times100(Divide(a.wins + b.wins, (a.wins + b.wins) + (a.losses + b.losses)))
\* the percentage of a team in formatAllRosters (tools.ts 853)
RosterWinPct(a) == Times100(Divide(a.wins, OrOne(a.wins + a.losses)))

InitWinPct ==
  /\ InitPlayers /\ InitQuery /\ InitAgg
  /\ disk = [x \in Paths |-> NoFile]
  /\ \E a \in Records, b \in Records : fin = [fn |-> "winPct", a |-> a, b |-> b]
  /\ fout = NoOutput

SortLeagues ==
  /\ fin.fn = "winPct" /\ fout = NoOutput
  /\ fout' = [fn |-> "comparator", value |-> CompareWinPct(fin.a, fin.b)]
  /\ UNCHANGED <<playerVars, queryVars, aggVars, fin>>

SumRecords ==
  /\ fin.fn = "winPct" /\ fout = NoOutput
  /\ fout' = [fn |-> "overall", value |-> OverallWinPct(fin.a, fin.b)]
  /\ UNCHANGED <<playerVars, queryVars, aggVars, fin>>

FormatRoster ==
  /\ fin.fn = "winPct" /\ fout = NoOutput
  /\ fout' = [fn |-> "roster", value |-> RosterWinPct(fin.a)]
  /\ UNCHANGED <<playerVars, queryVars, aggVars, fin>>

NextWinPct == SortLeagues \/ SumRecords \/ FormatRoster

SpecWinPct == InitWinPct /\ [][NextWinPct]_vars

\* C14: no win percentage is NaN, whatever the records, also for a record
\* of no wins and no losses.
C14_WinPctNeverNaN ==
  fout.fn \in {"comparator", "overall", "roster"} => ~fout.value.nan

(***************************************************************************)
(* enrichPlayers after its getPlayers step (tools.ts 380-409) and          *)
(* PlayerCache.getPlayers(ids) (player-cache.ts 199-215).                  *)
(***************************************************************************)
MaxIds == 3   \* a roster holds up to MaxIds ids, drawn from 1..MaxIds

IdLists == UNION {[1..n -> 1..MaxIds] : n \in 0..MaxIds}
StarterLists == {<<>>, <<1>>}
\* what loadPlayersFromCache returns: a snapshot, or null
Snapshots == Datasets \cup {NoMap}

\* PlayerCache.getPlayers(ids): the records of the ids the snapshot holds; an
\* empty map when there is no snapshot (player-cache.ts 199-215)
PlayersByIds(snapshot, ids) ==
  [i \in {ids[j] : j \in DOMAIN ids} \cap DOMAIN snapshot |-> snapshot[i]]

Includes(list, x) == \E j \in DOMAIN list : list[j] = x

\* the placeholder of an unknown player (tools.ts 385-395)
Placeholder(id, starters) ==
  [player_id |-> id, full_name |-> <<"Unknown Player", id>>, position |-> "FLEX",
   status |-> "Inactive", is_starter |-> Includes(starters, id)]
\* the entry of a player of the snapshot (tools.ts 398-406)
Enriched(id, player, starters) ==
  [player_id |-> id, full_name |-> <<player>>, position |-> "QB",
   status |-> "Active", is_starter |-> Includes(starters, id)]

EnrichKnownOnly(ids, starters, snapshot) ==
  LET known == SelectSeq(ids, LAMBDA id : id \in DOMAIN snapshot)
  IN [j \in DOMAIN known |-> Enriched(known[j], snapshot[known[j]], starters)]
\* playerIds.map(...) over the map getPlayersByIds returned (tools.ts 380-409)
EnrichPlayers(ids, starters, snapshot) ==
  [j \in DOMAIN ids |->
     IF ids[j] \in DOMAIN PlayersByIds(snapshot, ids)
       THEN Enriched(ids[j], PlayersByIds(snapshot, ids)[ids[j]], starters)
       ELSE Placeholder(ids[j], starters)]

InitEnrich ==
  /\ InitPlayers /\ InitQuery /\ InitAgg
  /\ disk = [x \in Paths |-> NoFile]
  /\ \E ids \in IdLists, st \in StarterLists, sn \in Snapshots :
       fin = [fn |-> "enrich", ids |-> ids, starters |-> st, snapshot |-> sn]
  /\ fout = NoOutput

Enrich ==
  /\ fin.fn = "enrich" /\ fout = NoOutput
  /\ fout' = [fn |-> "enrich",
              value |-> EnrichPlayers(fin.ids, fin.starters, fin.snapshot)]
  /\ UNCHANGED <<playerVars, queryVars, aggVars, fin>>

SpecEnrich == InitEnrich /\ [][Enrich]_vars

\* C15: enrichPlayers returns one entry per input id, in input order; an id
\* the snapshot does not hold yields the placeholder ('Unknown Player (id)',
\* FLEX, Inactive).
C15_OneEntryPerId ==
  fout.fn = "enrich" =>
    /\ Len(fout.value) = Len(fin.ids)
    /\ \A j \in DOMAIN fin.ids :
         /\ fout.value[j].player_id = fin.ids[j]
         /\ fin.ids[j] \notin DOMAIN fin.snapshot =>
              /\ fout.value[j].full_name = <<"Unknown Player", fin.ids[j]>>
              /\ fout.value[j].position = "FLEX"
              /\ fout.value[j].status = "Inactive"
         /\ fin.ids[j] \in DOMAIN fin.snapshot =>
              fout.value[j].full_name = <<fin.snapshot[fin.ids[j]]>>

\* a roster of three ids, one of them twice, one absent from the snapshot
C15_Witness ==
  /\ fout.fn = "enrich"
  /\ fin.ids = <<2, 1, 2>>
  /\ fin.snapshot = <<"a">>
  /\ Len(fout.value) = 3

(***************************************************************************)
(* More properties of the query cache (SpecQuery).                         *)
(***************************************************************************)

ClearStep == cache' # cache /\ inflight' = inflight

\* C17: clearCache leaves the query cache without entries and every call
\* with a pending fetch as it was; a call whose fetcher returns while the
\* cache is empty returns the fetched value and stores its entry.
C17_ClearSparesPendingCalls ==
  [][/\ ClearStep =>
          /\ \A k \in Keys : ~cache'[k].has
          /\ pc' = pc /\ result' = result /\ got' = got
     /\ \A p \in Procs :
          /\ pc[p] = "fetching" /\ op[p] = "query" /\ inflight'[p] # inflight[p]
          /\ result'[p].kind = "ok"
          /\ \A k \in Keys : ~cache[k].has
          => \E k \in inflight[p] :
               /\ pc'[p] = "done"
               /\ result'[p].via = "upstream"
               /\ \A j \in Keys : cache'[j].has <=> j = k
               /\ cache'[k].data = result'[p].map
               /\ cache'[k].timestamp = now]_vars

\* an entry that served a hit is gone, and the only entry is the one a
\* call stored on completing its fetch
C17_Witness ==
  \E p \in Procs, q \in Procs, k \in Keys :
    /\ p # q
    /\ op[p] = "query" /\ pc[p] = "done" /\ result[p].via = "cache"
    /\ op[q] = "query" /\ pc[q] = "done" /\ result[q].via = "upstream"
    /\ \A j \in Keys : cache[j].has <=> j = k
    /\ cache[k].data = result[q].map
    /\ result[p].map # result[q].map

(***************************************************************************)
(* Properties of the five operations behind getCached (SpecFetch).         *)
(***************************************************************************)

PlayersRequests == {l \in Procs : pc[l] = "fetch"}

\* C19: within the validity period of one snapshot at most one request for
\* the player dataset is issued, whatever the interleaving of the getPlayers
\* calls: no two such requests are ever pending together.
C19_OnePlayersRequestPerDay == Cardinality(PlayersRequests) <= 1

\* the tools whose league tasks catch their own errors
FanOutTools == {"getCrossLeagueMatchups", "getMultiRosterAnalysis", "getWaiverTargets"}

\* what makes a league task return null by itself: a request of its own
\* failed, or the league holds no roster or no matchup of the principal
OwnReasons == {"fetch", "players", "noRoster", "noMatchup"}

\* the task of league l failed: its catch block returned null
TaskFailed(l) ==
  /\ pc[l] = "done"
  /\ result[l].kind = "null"
  /\ result[l].via \notin {"noRoster", "noMatchup"}

\* the step in which Promise.all of the league tasks resolves
JoinStep == apc = "fanout" /\ apc' # "fanout" /\ tool \in FanOutTools

\* C20: the aggregate is computed only when every league task has settled,
\* and when a league task has failed every sibling still contributes its
\* result unless a request of its own failed or it has nothing to contribute.
C20_SiblingsUnaffected ==
  [][JoinStep =>
       /\ \A l \in leagues : pc[l] = "done"
       /\ \A l \in leagues :
            (\E m \in leagues \ {l} : TaskFailed(m)) =>
              l \in aggResult'.included \/ result[l].via \in OwnReasons]_vars

\* C21: the matchups getCrossLeagueMatchups returns are those of the leagues
\* with a matchup, ascending by priority, leagues of equal priority in the
\* order of the discovered list: the order is fixed by the upstream
\* responses, whichever league task completed first.
C21_OrderByPriorityThenLeague ==
  apc = "done" /\ tool = "getCrossLeagueMatchups" /\ aggResult.kind = "ok" =>
    LET o == aggResult.order
    IN /\ Range(o) = aggResult.included
       /\ Len(o) = Cardinality(aggResult.included)
       /\ \A i \in DOMAIN o, j \in DOMAIN o : i < j =>
            \/ PriorityOf(o[i]) < PriorityOf(o[j])
            \/ PriorityOf(o[i]) = PriorityOf(o[j]) /\ o[i] < o[j]

\* two leagues of equal priority are returned in the discovered order
C21_Witness ==
  /\ apc = "done" /\ tool = "getCrossLeagueMatchups"
  /\ Len(aggResult.order) = 2
  /\ PriorityOf(aggResult.order[1]) = PriorityOf(aggResult.order[2])
  /\ aggResult.order[1] < aggResult.order[2]

(***************************************************************************)
(* The per-league body of getCrossLeagueMatchups (tools.ts 246-297) on     *)
(* any rosters and matchup events of one league and week.                  *)
(***************************************************************************)
MaxRosters == 2   \* a league has up to MaxRosters rosters
MaxEvents == 3    \* and up to MaxEvents matchup events in the week

\* scores in tenths of a point: the differences 9.9, 10, 19.9, 20 and 25 occur
ScorePoints == {0, 99, 100, 199, 200, 250}

LeagueRosters ==
  UNION {{[i \in 1..n |-> Roster(i, o[i])] : o \in [1..n -> Owners]} : n \in 0..MaxRosters}
LeagueEvents ==
  UNION {[1..n -> {Matchup(r, m, x) : r \in 1..MaxRosters, m \in 1..2,
                                      x \in ScorePoints}] : n \in 0..MaxEvents}

InitLeague ==
  /\ InitPlayers /\ InitQuery /\ InitAgg
  /\ disk = [x \in Paths |-> NoFile]
  /\ \E rs \in LeagueRosters, ms \in LeagueEvents :
       fin = [fn |-> "league", rosters |-> rs, matchups |-> ms]
  /\ fout = NoOutput

\* the task of one league once both lists have arrived (tools.ts 246-297)
AnalyzeLeague ==
  /\ fin.fn = "league" /\ fout = NoOutput
  /\ fout' = [fn |-> "league",
              value |-> CrossLeagueMatchup(1, fin.rosters, fin.matchups)]
  /\ UNCHANGED <<playerVars, queryVars, aggVars, fin>>

SpecLeague == InitLeague /\ [][AnalyzeLeague]_vars

\* the difference of the two scores of a matchup, in tenths of a point
Difference(m) == Abs(m.user_points - m.opponent_points)

\* C22: with d the absolute difference of the two scores, d < 10 gives
\* 'high' and priority 1, 10 <= d < 20 gives 'medium' and priority 2, and
\* d >= 20 gives 'low' and priority 3.
C22_Classification ==
  fout.fn = "league" /\ fout.value # <<>> =>
    LET m == fout.value[1]
        d == Difference(m)
    IN /\ d < 100 => m.competitiveness = "high" /\ m.priority = 1
       /\ 100 <= d /\ d < 200 => m.competitiveness = "medium" /\ m.priority = 2
       /\ d >= 200 => m.competitiveness = "low" /\ m.priority = 3

\* a matchup whose scores differ by exactly 10 points is rated medium
C22_Witness ==
  /\ fout.fn = "league" /\ fout.value # <<>>
  /\ Difference(fout.value[1]) = 100
  /\ fout.value[1].competitiveness = "medium"

\* the rosters of the principal and the pairs of events (i, j) in which i is
\* an event of roster r and j has the matchup_id of i and another roster_id
UserRosters(rs) == {rs[i].roster_id : i \in {x \in DOMAIN rs : rs[x].owner_id = userId}}
Pairings(ms, r) ==
  {<<i, j>> \in (DOMAIN ms) \X (DOMAIN ms) :
     /\ ms[i].roster_id = r
     /\ ms[j].matchup_id = ms[i].matchup_id
     /\ ms[j].roster_id # ms[i].roster_id}

\* C23: the matchup of a league pairs an event of the principal's roster
\* with an event of the same matchup_id and another roster_id; a league
\* with no roster of the principal, no event of it or no such opponent
\* event yields no matchup.
C23_PairedWithOpponentOnly ==
  fout.fn = "league" =>
    LET rs == fin.rosters
        ms == fin.matchups
    IN /\ fout.value # <<>> =>
            \E r \in UserRosters(rs) : \E ij \in Pairings(ms, r) :
              /\ fout.value[1].user_roster_id = r
              /\ fout.value[1].matchup_id = ms[ij[1]].matchup_id
              /\ fout.value[1].user_points = ms[ij[1]].points
              /\ fout.value[1].opponent_roster_id = ms[ij[2]].roster_id
              /\ fout.value[1].opponent_points = ms[ij[2]].points
       /\ (\A r \in UserRosters(rs) : Pairings(ms, r) = {}) => fout.value = <<>>

\* the principal's event comes with an event of its own roster in the same
\* matchup and with no event of another roster: no matchup is returned
C23_Witness ==
  /\ fout.fn = "league" /\ fout.value = <<>>
  /\ \E r \in UserRosters(fin.rosters) :
       /\ Pairings(fin.matchups, r) = {}
       /\ \E i \in DOMAIN fin.matchups, j \in DOMAIN fin.matchups :
            /\ i # j
            /\ fin.matchups[i].roster_id = r /\ fin.matchups[j].roster_id = r
            /\ fin.matchups[i].matchup_id = fin.matchups[j].matchup_id

(***************************************************************************)
(* groupPlayersByPosition (tools.ts 415-461) and the overall strength of   *)
(* a roster in analyzeRoster (tools.ts 490-502) and formatAllRosters       *)
(* (tools.ts 773-818, 857), on any list of enriched players.               *)
(***************************************************************************)
MaxRosterSize == 4   \* a roster holds up to MaxRosterSize players

positions == <<"QB", "RB", "WR", "TE", "K", "DEF">>
Categories == Range(positions)

\* enriched players: one position each, the placeholder of an unknown id
\* (FLEX), a player of two positions and a player listed for every position
Player(pos, fps, st) == [position |-> pos, fantasy_positions |-> fps, is_starter |-> st]
PlayerKinds ==
  {Player(c, {c}, st) : c \in Categories, st \in BOOLEAN}
    \cup {Player("FLEX", {"FLEX"}, st) : st \in BOOLEAN}
    \cup {Player("RB", {"RB", "WR"}, st) : st \in BOOLEAN}
    \cup {Player("QB", Categories, st) : st \in BOOLEAN}
PlayerLists == UNION {[1..n -> PlayerKinds] : n \in 0..MaxRosterSize}

\* players.filter(position matches or fantasy_positions includes) (lines 420-422)
PositionPlayers(players, c) ==
  SelectSeq(players, LAMBDA q : q.position = c \/ c \in q.fantasy_positions)
IsStarter(q) == q.is_starter
IsBench(q) == ~q.is_starter

\* Math.round of a number given in tenths: the nearest integer, a half up
RoundTenths(t) == (t + 5) \div 10

\* the scarcity factor of a position, in tenths (lines 432-437)
Scarcity(c) == IF c = "QB" THEN 8 ELSE IF c \in {"RB", "WR"} THEN 12 ELSE 10

UnweightedDepthScore(c, st, bn) == 3 * st + bn
\* depthScore of a position with st starters and bn bench players (lines 427-459)
DepthScore(c, st, bn) == RoundTenths((3 * st + bn) * Scarcity(c))

StrengthByTwo(c, n) ==
  IF n >= 2 THEN "Strong" ELSE IF n >= 1 THEN "Average" ELSE "Weak"
\* the strength of a position with n players (lines 439-448)
Strength(c, n) ==
  IF c \in {"QB", "K", "DEF"}
    THEN IF n >= 2 THEN "Strong" ELSE IF n >= 1 THEN "Average" ELSE "Weak"
    ELSE IF n >= 4 THEN "Strong" ELSE IF n >= 2 THEN "Average" ELSE "Weak"

groupPlayersByPosition(players) ==
  [i \in DOMAIN positions |->
     LET pp == PositionPlayers(players, positions[i])
         st == Len(SelectSeq(pp, IsStarter))
         bn == Len(SelectSeq(pp, IsBench))
     IN [position |-> positions[i],
         total_count |-> Len(pp),
         starter_count |-> st,
         bench_count |-> bn,
         strength |-> Strength(positions[i], Len(pp)),
         depth_score |-> DepthScore(positions[i], st, bn)]]

\* positions.filter(pos => pos.strength === tier).length
CountOf(ps, tier) == Cardinality({i \in DOMAIN ps : ps[i].strength = tier})

\* overallStrength (lines 494-502 and 808-816)
OverallStrength(ps) ==
  IF CountOf(ps, "Strong") >= 4 /\ CountOf(ps, "Weak") <= 1 THEN "Strong"
  ELSE IF CountOf(ps, "Weak") >= 3 THEN "Weak"
  ELSE "Average"

\* the strength formatAllRosters prints for a roster: a roster without
\* player ids is returned early with no overallStrength, which is printed
\* as 'Average' (lines 775-785, 857)
SummaryStrength(players) ==
  IF Len(players) = 0 THEN "Average"
  ELSE OverallStrength(groupPlayersByPosition(players))

InitRoster ==
  /\ InitPlayers /\ InitQuery /\ InitAgg
  /\ disk = [x \in Paths |-> NoFile]
  /\ \E ps \in PlayerLists : fin = [fn |-> "roster", players |-> ps]
  /\ fout = NoOutput

GroupPlayers ==
  /\ fin.fn = "roster" /\ fout = NoOutput
  /\ fout' = [fn |-> "group", value |-> groupPlayersByPosition(fin.players)]
  /\ UNCHANGED <<playerVars, queryVars, aggVars, fin>>

analyzeRoster ==
  /\ fin.fn = "roster" /\ fout = NoOutput
  /\ fout' = [fn |-> "analyze",
              value |-> OverallStrength(groupPlayersByPosition(fin.players))]
  /\ UNCHANGED <<playerVars, queryVars, aggVars, fin>>

formatAllRosters ==
  /\ fin.fn = "roster" /\ fout = NoOutput
  /\ fout' = [fn |-> "summary", value |-> SummaryStrength(fin.players)]
  /\ UNCHANGED <<playerVars, queryVars, aggVars, fin>>

NextRoster == GroupPlayers \/ analyzeRoster \/ formatAllRosters

SpecRoster == InitRoster /\ [][NextRoster]_vars

\* the players of the input counted in category c, starters or not
Counted(c, st) ==
  Cardinality({i \in DOMAIN fin.players :
                 /\ fin.players[i].position = c \/ c \in fin.players[i].fantasy_positions
                 /\ fin.players[i].is_starter = st})

\* the factor of the claim, in tenths
ClaimedFactor(c) ==
  CASE c = "QB" -> 8
    [] c \in {"RB", "WR"} -> 12
    [] c \in {"TE", "K", "DEF"} -> 10

\* C24: for each of the six categories depth_score is the integer nearest
\* to (3 * starter_count + bench_count) * m, with m = 0.8 for QB, 1.2 for RB
\* and WR and 1.0 for TE, K and DEF, the counts being those of the starters
\* and of the non-starters of the category.
C24_DepthScore ==
  fout.fn = "group" =>
    /\ DOMAIN fout.value = 1..6
    /\ \A i \in 1..6 :
         LET e == fout.value[i]
             t == (3 * Counted(e.position, TRUE) + Counted(e.position, FALSE))
                    * ClaimedFactor(e.position)
         IN /\ e.position = positions[i]
            /\ e.starter_count = Counted(e.position, TRUE)
            /\ e.bench_count = Counted(e.position, FALSE)
            /\ 10 * e.depth_score - 5 <= t
            /\ t < 10 * e.depth_score + 5

\* a QB group of a starter and a bench player: 4 * 0.8 = 3.2 gives 3, and a
\* RB group of two starters: 6 * 1.2 = 7.2 gives 7
C24_Witness ==
  /\ fout.fn = "group"
  /\ fout.value[1].starter_count = 1 /\ fout.value[1].bench_count = 1
  /\ fout.value[1].depth_score = 3
  /\ fout.value[2].starter_count = 2 /\ fout.value[2].bench_count = 0
  /\ fout.value[2].depth_score = 7

\* C25: the strength of a category depends on its member count n only: for
\* QB, K and DEF Strong when n >= 2, Average when n = 1, Weak when n = 0; for
\* RB, WR and TE Strong when n >= 4, Average when n is 2 or 3, Weak when
\* n <= 1.
C25_StrengthTier ==
  fout.fn = "group" =>
    \A i \in 1..6 :
      LET e == fout.value[i]
          n == Counted(e.position, TRUE) + Counted(e.position, FALSE)
      IN /\ e.total_count = n
         /\ e.position \in {"QB", "K", "DEF"} =>
              /\ n >= 2 => e.strength = "Strong"
              /\ n = 1 => e.strength = "Average"
              /\ n = 0 => e.strength = "Weak"
         /\ e.position \in {"RB", "WR", "TE"} =>
              /\ n >= 4 => e.strength = "Strong"
              /\ n \in {2, 3} => e.strength = "Average"
              /\ n <= 1 => e.strength = "Weak"

\* three tight ends are Average, two kickers are Strong
C25_Witness ==
  /\ fout.fn = "group"
  /\ fout.value[4].total_count = 3 /\ fout.value[4].strength = "Average"
  /\ fout.value[5].total_count = 2 /\ fout.value[5].strength = "Strong"

\* the overall strength the rule of the claim gives to the input roster
ClaimedOverall ==
  LET ps == groupPlayersByPosition(fin.players)
      strong == Cardinality({i \in 1..6 : ps[i].strength = "Strong"})
      weak == Cardinality({i \in 1..6 : ps[i].strength = "Weak"})
  IN CASE strong >= 4 /\ weak <= 1 -> "Strong"
       [] weak >= 3 -> "Weak"
       [] OTHER -> "Average"

\* C26: the overall strength of a roster is Strong iff at least 4 categories
\* are Strong and at most 1 is Weak, Weak iff at least 3 are Weak, Average
\* otherwise, in analyzeRoster and in formatAllRosters alike.
C26_OverallStrength ==
  fout.fn \in {"analyze", "summary"} => fout.value = ClaimedOverall

(***************************************************************************)
(* generateMultiRosterComparison (tools.ts 531-612) on any list of roster  *)
(* analyses, each the analysis of a list of enriched players.              *)
(***************************************************************************)
MaxAnalyses == 3       \* up to MaxAnalyses rosters are compared
MaxAnalysedSize == 2   \* each of up to MaxAnalysedSize players

\* the analysed rosters hold quarterbacks and running backs
AnalysedKinds == {Player(c, {c}, st) : c \in {"QB", "RB"}, st \in BOOLEAN}
AnalysedRosters == UNION {[1..n -> AnalysedKinds] : n \in 0..MaxAnalysedSize}

\* what analyzeRoster returns for the roster of league l (tools.ts 504-522)
RosterAnalysis(l, players) ==
  [league_id |-> l, positions |-> groupPlayersByPosition(players)]

\* roster.positions.find(pos => pos.position === position) (line 537)
PositionDepthOf(a, c) ==
  a.positions[MinOf({i \in DOMAIN a.positions : a.positions[i].position = c})]

\* positionData of position c: one entry for each roster (lines 535-540)
PositionData(as, c) ==
  [i \in DOMAIN as |-> [league_id |-> as[i].league_id,
                        depth_score |-> PositionDepthOf(as[i], c).depth_score]]

\* where the sort puts x in the sorted s: behind every element the
\* comparator b.depth_score - a.depth_score does not rank after x (line 560)
InsertByDepth(x, s) ==
  LET n == Cardinality({i \in DOMAIN s : s[i].depth_score >= x.depth_score})
  IN SubSeq(s, 1, n) \o <<x>> \o SubSeq(s, n + 1, Len(s))

\* positionData.sort(descending depth_score), a stable sort (line 560)
RECURSIVE SortByDepth(_)
SortByDepth(s) ==
  IF s = <<>> THEN <<>>
  ELSE InsertByDepth(s[Len(s)], SortByDepth(SubSeq(s, 1, Len(s) - 1)))

RECURSIVE SumDepth(_)
SumDepth(s) == IF s = <<>> THEN 0 ELSE s[1].depth_score + SumDepth(Tail(s))

FlooredAverage(sum, n) == sum \div n
\* Math.round(sum / n): the nearest integer, a half up (lines 561, 578)
AverageDepth(sum, n) == (2 * sum + n) \div (2 * n)

NotAvailable == [league_id |-> "N/A", depth_score |-> 0]

\* the entry of position c in position_analysis (lines 534-580)
PositionAnalysis(as, c) ==
  LET data == PositionData(as, c)
      sorted == SortByDepth(data)
  IN IF Len(data) = 0
       THEN [position |-> c, strongest_team |-> NotAvailable,
             weakest_team |-> NotAvailable, average_depth |-> 0]
       ELSE [position |-> c,
             strongest_team |-> sorted[1],
             weakest_team |-> sorted[Len(sorted)],
             average_depth |-> AverageDepth(SumDepth(data), Len(data))]

\* rosterAnalyses.filter(the position is Weak) (lines 587-589)
WeakTeams(as, c) ==
  SelectSeq(as, LAMBDA a : PositionDepthOf(a, c).strength = "Weak")

RecommendedAtOne(weak) == Len(weak) >= 1
\* weakTeams.length >= 2 (line 591)
Recommended(weak) == Len(weak) >= 2

\* overall_recommendations (lines 583-598)
RECURSIVE Recommendations(_, _)
Recommendations(as, cs) ==
  IF cs = <<>> THEN <<>>
  ELSE LET weak == WeakTeams(as, Head(cs))
       IN (IF Recommended(weak)
             THEN <<[position |-> Head(cs),
                     affected_teams |-> [i \in DOMAIN weak |-> weak[i].league_id]]>>
             ELSE <<>>)
          \o Recommendations(as, Tail(cs))

InitComparison ==
  /\ InitPlayers /\ InitQuery /\ InitAgg
  /\ disk = [x \in Paths |-> NoFile]
  /\ \E n \in 0..MaxAnalyses : \E rs \in [1..n -> AnalysedRosters] :
       fin = [fn |-> "comparison",
              analyses |-> [i \in 1..n |-> RosterAnalysis(i, rs[i])]]
  /\ fout = NoOutput

generateMultiRosterComparison ==
  /\ fin.fn = "comparison" /\ fout = NoOutput
  /\ fout' = [fn |-> "comparison",
              position_analysis |->
                [i \in DOMAIN positions |-> PositionAnalysis(fin.analyses, positions[i])],
              overall_recommendations |-> Recommendations(fin.analyses, positions)]
  /\ UNCHANGED <<playerVars, queryVars, aggVars, fin>>

SpecComparison == InitComparison /\ [][generateMultiRosterComparison]_vars

\* the depth_score the analysis of league l has for the i-th category
DepthIn(l, i) == fin.analyses[l].positions[i].depth_score

\* C27: for a non-empty list of analyses and every category, the strongest
\* team is a roster of maximum depth_score, the weakest a roster of minimum
\* depth_score, average_depth is the integer nearest to the mean of the
\* depth_scores, and weakest <= average_depth <= strongest.
C27_StrongestWeakestAverage ==
  fout.fn = "comparison" /\ Len(fin.analyses) > 0 =>
    LET L == DOMAIN fin.analyses
        n == Len(fin.analyses)
    IN \A i \in 1..6 :
         LET e == fout.position_analysis[i]
             sum == SumDepth([l \in L |-> [depth_score |-> DepthIn(l, i)]])
         IN /\ e.position = positions[i]
            /\ e.strongest_team.league_id \in L
            /\ e.strongest_team.depth_score = DepthIn(e.strongest_team.league_id, i)
            /\ \A l \in L : DepthIn(l, i) <= e.strongest_team.depth_score
            /\ e.weakest_team.league_id \in L
            /\ e.weakest_team.depth_score = DepthIn(e.weakest_team.league_id, i)
            /\ \A l \in L : DepthIn(l, i) >= e.weakest_team.depth_score
            /\ 2 * n * e.average_depth - n <= 2 * sum
            /\ 2 * sum < 2 * n * e.average_depth + n
            /\ e.weakest_team.depth_score <= e.average_depth
            /\ e.average_depth <= e.strongest_team.depth_score

\* two rosters whose running backs score 4 and 1: the mean 2.5 is reported
\* as 3, the first roster as strongest and the second as weakest
C27_Witness ==
  /\ fout.fn = "comparison" /\ Len(fin.analyses) = 2
  /\ fout.position_analysis[2].strongest_team = [league_id |-> 1, depth_score |-> 4]
  /\ fout.position_analysis[2].weakest_team = [league_id |-> 2, depth_score |-> 1]
  /\ fout.position_analysis[2].average_depth = 3

\* the leagues whose analysis rates the i-th category Weak
WeakIn(i) == {l \in DOMAIN fin.analyses : fin.analyses[l].positions[i].strength = "Weak"}

\* C28: a category is in overall_recommendations exactly when at least 2 of
\* the analysed rosters rate it Weak, once, and its affected_teams are
\* exactly the leagues of those rosters.
C28_SharedWeakness ==
  fout.fn = "comparison" =>
    LET recs == fout.overall_recommendations
    IN /\ \A i \in 1..6 :
            (\E k \in DOMAIN recs : recs[k].position = positions[i])
              <=> Cardinality(WeakIn(i)) >= 2
       /\ \A k \in DOMAIN recs, j \in DOMAIN recs :
            recs[k].position = recs[j].position => k = j
       /\ \A k \in DOMAIN recs : \A i \in 1..6 : recs[k].position = positions[i] =>
            /\ Range(recs[k].affected_teams) = WeakIn(i)
            /\ Len(recs[k].affected_teams) = Cardinality(WeakIn(i))

\* of three rosters the first and the third have no quarterback: QB is
\* recommended for these two, and RB, which one roster only lacks, is not
C28_Witness ==
  /\ fout.fn = "comparison" /\ Len(fin.analyses) = 3
  /\ \E k \in DOMAIN fout.overall_recommendations :
       /\ fout.overall_recommendations[k].position = "QB"
       /\ fout.overall_recommendations[k].affected_teams = <<1, 3>>
  /\ Cardinality(WeakIn(2)) = 1
  /\ \A k \in DOMAIN fout.overall_recommendations :
       fout.overall_recommendations[k].position # "RB"

(***************************************************************************)
(* getWaiverTargets once the rosters, the player dataset and the trending  *)
(* list have arrived (part_002 1192-1333).                                 *)
(***************************************************************************)
MaxWaiverLeagues == 2   \* up to MaxWaiverLeagues leagues were fetched
MaxTrending == 1        \* the trending list has up to MaxTrending entries

\* the player dataset: three running backs, a receiver who also plays
\* running back, a tight end and a running back who is not active
WaiverPlayer(id, pos, fps, status) ==
  [player_id |-> id, position |-> pos, fantasy_positions |-> fps,
   status |-> status, team |-> "KC"]
allPlayers ==
  <<WaiverPlayer(1, "RB", {"RB"}, "Active"),
    WaiverPlayer(2, "RB", {"RB"}, "Questionable"),
    WaiverPlayer(3, "WR", {"WR", "RB"}, "Active"),
    WaiverPlayer(4, "RB", {"RB"}, "Active"),
    WaiverPlayer(5, "TE", {"TE"}, "Active"),
    WaiverPlayer(6, "RB", {"RB"}, "Inactive")>>

\* the players some roster of a league may hold; the others are free
Rosterable == 1..4

\* what the task of one league returns (part_002 1171-1185): the players of
\* the principal's roster, if there is one, and those of every roster
LeagueRosterData ==
  {[userRoster |-> FALSE, players |-> {}, rosteredPlayerIds |-> r] : r \in SUBSET Rosterable}
    \cup UNION {{[userRoster |-> TRUE, players |-> u, rosteredPlayerIds |-> u \cup o] :
                   o \in SUBSET (Rosterable \ u)} : u \in SUBSET Rosterable}

\* the answers of getTrendingPlayers('add', 24, 100)
TrendingEntries == {[player_id |-> i, count |-> 60] : i \in {1, 5}}
TrendingLists == UNION {[1..n -> TrendingEntries] : n \in 0..MaxTrending}

\* the arguments of the call: the position is "" when it is omitted, the
\* limit is 5 when it is omitted (part_002 1145)
WaiverCalls ==
  {[position |-> "", limit |-> 5], [position |-> "", limit |-> 1],
   [position |-> "TE", limit |-> 5]}

\* trendingMap.get(id) || 0 (part_002 1201-1204, 1288): the last entry of
\* the list for the id
TrendingCount(tr, id) ==
  LET I == {i \in DOMAIN tr : tr[i].player_id = id}
  IN IF I = {} THEN 0 ELSE tr[CHOOSE i \in I : \A j \in I : j <= i].count

\* the filter of the relevant players (part_002 1231-1251)
IsRelevant(q, cs) ==
  /\ \E c \in Range(cs) : q.position = c \/ c \in q.fantasy_positions
  /\ q.team # ""
  /\ q.status \in {"Active", "Questionable"}
  /\ q.position \in {"QB", "RB", "WR", "TE"} => q.fantasy_positions # {}

\* the leagues in which player q is on no roster (part_002 1260-1262)
AvailableIn(ld, q) ==
  SelectSeq([l \in DOMAIN ld |-> l], LAMBDA l : q.player_id \notin ld[l].rosteredPlayerIds)

\* the principal's players of the position of q in league l (part_002 1266-1272)
PositionCount(ld, l, q) ==
  Cardinality({i \in DOMAIN allPlayers :
                 /\ allPlayers[i].player_id \in ld[l].players
                 /\ \/ allPlayers[i].position = q.position
                    \/ q.position \in allPlayers[i].fantasy_positions})

\* the leagues for which q is recommended (part_002 1264-1278)
RecommendedFor(ld, q) ==
  SelectSeq(AvailableIn(ld, q),
            LAMBDA l : ld[l].userRoster /\ PositionCount(ld, l, q) < 3)

NoScarcityBonus(q) == 0
\* the position scarcity adjustment (part_002 1303-1308)
ScarcityBonus(q) ==
  IF q.position \in {"RB", "WR"} THEN 3 ELSE IF q.position = "TE" THEN 5 ELSE 0

\* priorityScore (part_002 1283-1308)
PriorityScore(ld, tr, q) ==
  (IF TrendingCount(tr, q.player_id) > 0 THEN TrendingCount(tr, q.player_id) * 10 ELSE 0)
    + Len(AvailableIn(ld, q)) * 10
    + Len(RecommendedFor(ld, q)) * 15
    + (IF q.status = "Active" THEN 5 ELSE 0)
    + ScarcityBonus(q)

\* the target made of player q (part_002 1310-1322)
WaiverTarget(ld, tr, q) ==
  [player_id |-> q.player_id, position |-> q.position, status |-> q.status,
   fantasy_positions |-> q.fantasy_positions,
   available_in_leagues |-> AvailableIn(ld, q),
   league_count |-> Len(AvailableIn(ld, q)),
   priority_score |-> PriorityScore(ld, tr, q),
   recommended_for |-> RecommendedFor(ld, q),
   trending_add_count |-> TrendingCount(tr, q.player_id)]

IsListed(t) == TRUE
\* the filter of the targets (part_002 1324)
IsAvailable(t) == Len(t.available_in_leagues) > 0

\* waiverTargets (part_002 1254-1324)
WaiverTargets(ld, tr, cs) ==
  LET relevant == SelectSeq(allPlayers, LAMBDA q : IsRelevant(q, cs))
  IN SelectSeq([i \in DOMAIN relevant |-> WaiverTarget(ld, tr, relevant[i])], IsAvailable)

\* where the sort puts x in the sorted s: behind every element the
\* comparator b.priority_score - a.priority_score does not rank after x
InsertByScore(x, s) ==
  LET n == Cardinality({i \in DOMAIN s : s[i].priority_score >= x.priority_score})
  IN SubSeq(s, 1, n) \o <<x>> \o SubSeq(s, n + 1, Len(s))

\* sort(descending priority_score), a stable sort (part_002 1331)
RECURSIVE SortByScore(_)
SortByScore(s) ==
  IF s = <<>> THEN <<>>
  ELSE InsertByScore(s[Len(s)], SortByScore(SubSeq(s, 1, Len(s) - 1)))

\* slice(0, limit) for a positive limit (part_002 1332)
Slice(s, limit) == SubSeq(s, 1, IF Len(s) < limit THEN Len(s) ELSE limit)

\* positionGroups[c] (part_002 1327-1333)
PositionGroup(ts, c, limit) ==
  Slice(SortByScore(SelectSeq(ts, LAMBDA t : t.position = c \/ c \in t.fantasy_positions)),
        limit)

\* the positions of the call (part_002 1209)
PositionsOf(position) == IF position = "" THEN positions ELSE <<position>>

InitWaiver ==
  /\ InitPlayers /\ InitQuery /\ InitAgg
  /\ disk = [x \in Paths |-> NoFile]
  /\ \E n \in 0..MaxWaiverLeagues : \E ld \in [1..n -> LeagueRosterData] :
       \E tr \in TrendingLists, call \in WaiverCalls :
         fin = [fn |-> "waiver", leagues |-> ld, trending |-> tr,
                limit |-> call.limit, position |-> call.position]
  /\ fout = NoOutput

RankTargets ==
  /\ fin.fn = "waiver" /\ fout = NoOutput
  /\ LET ts == WaiverTargets(fin.leagues, fin.trending, PositionsOf(fin.position))
         cs == PositionsOf(fin.position)
     IN fout' = [fn |-> "waiver",
                 targets |-> ts,
                 groups |-> [i \in DOMAIN cs |-> PositionGroup(ts, cs[i], fin.limit)]]
  /\ UNCHANGED <<playerVars, queryVars, aggVars, fin>>

SpecWaiver == InitWaiver /\ [][RankTargets]_vars

\* the fetched leagues in which player id is on no roster, and those of them
\* in which the principal's roster has fewer than 3 players of position pos
Unrostered(id) ==
  {l \in DOMAIN fin.leagues : id \notin fin.leagues[l].rosteredPlayerIds}
Needed(id, pos) ==
  {l \in Unrostered(id) :
     /\ fin.leagues[l].userRoster
     /\ Cardinality({i \in fin.leagues[l].players :
                       \/ allPlayers[i].position = pos
                       \/ pos \in allPlayers[i].fantasy_positions}) < 3}
\* the adds of player id in the trending list
Adds(id) ==
  IF \E i \in DOMAIN fin.trending : fin.trending[i].player_id = id THEN 60 ELSE 0

\* the targets listed for some position
Listed == UNION {Range(fout.groups[i]) : i \in DOMAIN fout.groups}

\* C29: the priority_score of a candidate is 10 times its trending adds, plus
\* 10 for each fetched league in which it is on no roster, plus 15 for each
\* of those leagues in which the principal's roster has fewer than 3 players
\* of its position, plus 5 when it is Active, plus 3 for RB and WR and 5 for
\* TE.
C29_PriorityScore ==
  fout.fn = "waiver" =>
    \A t \in Range(fout.targets) \cup Listed :
      t.priority_score =
        Adds(t.player_id) * 10
          + Cardinality(Unrostered(t.player_id)) * 10
          + Cardinality(Needed(t.player_id, t.position)) * 15
          + (IF t.status = "Active" THEN 5 ELSE 0)
          + (CASE t.position \in {"RB", "WR"} -> 3
               [] t.position = "TE" -> 5
               [] OTHER -> 0)

\* the tight end with 60 adds, free in two leagues and needed in one, scores
\* 600 + 20 + 15 + 5 + 5 and is listed before every other target
C29_Witness ==
  /\ fout.fn = "waiver" /\ Len(fin.leagues) = 2
  /\ \E t \in Range(fout.targets) :
       /\ t.player_id = 5 /\ t.priority_score = 645
       /\ Len(t.recommended_for) = 1
       /\ \E u \in Range(fout.targets) : u.player_id = 4 /\ u.priority_score = 18

\* C30: no listed target is rostered in every analysed league, and the
\* targets of each position are in non-increasing order of priority_score
\* and at most limit in number.
C30_AvailableSortedLimited ==
  fout.fn = "waiver" =>
    /\ \A t \in Range(fout.targets) \cup Listed : Unrostered(t.player_id) # {}
    /\ \A i \in DOMAIN fout.groups :
         /\ Len(fout.groups[i]) <= fin.limit
         /\ \A j \in DOMAIN fout.groups[i], k \in DOMAIN fout.groups[i] :
              j < k => fout.groups[i][j].priority_score >= fout.groups[i][k].priority_score

\* a running back rostered in both leagues is left out, and of the three
\* running backs that are free somewhere the limit of 1 keeps the best
C30_Witness ==
  /\ fout.fn = "waiver" /\ Len(fin.leagues) = 2 /\ fin.limit = 1
  /\ Unrostered(1) = {}
  /\ Cardinality({t.player_id : t \in Range(fout.targets)} \cap {2, 3, 4}) = 3
  /\ Len(fout.groups[2]) = 1

(***************************************************************************)
(* The sort of the enriched leagues in discoverUserLeagues (tools.ts       *)
(* 139-154).  The comparator is not a consistent one (two leagues of       *)
(* different statuses other than in_season each rank after the other), so  *)
(* the order is the one the engine's algorithm produces: for an array of   *)
(* fewer than 64 elements, the first run is found (and reversed when it    *)
(* descends) and the other elements are put in by binary insertion.        *)
(***************************************************************************)
MaxSorted == 4   \* up to MaxSorted leagues are sorted

Statuses == {"pre_draft", "drafting", "in_season", "complete"}
\* user_record: absent, or wins and losses
SortedRecords == {[wins |-> 0, losses |-> 0], [wins |-> 1, losses |-> 0],
                  [wins |-> 0, losses |-> 1]}
EnrichedLeagues ==
  {[status |-> st, has_record |-> FALSE, user_record |-> [wins |-> 0, losses |-> 0]] :
     st \in Statuses}
    \cup {[status |-> st, has_record |-> TRUE, user_record |-> r] :
            st \in Statuses, r \in SortedRecords}

\* the sign of a number; the engine takes a NaN of the comparator as 0
Sign(x) == IF x.nan \/ x.num = 0 THEN 0 ELSE IF x.num < 0 THEN -1 ELSE 1

CompareByRecord(a, b) ==
  IF a.has_record /\ b.has_record
    THEN Sign(CompareWinPct(a.user_record, b.user_record))
    ELSE 0
\* the sign of the comparator (tools.ts 140-154)
CompareLeagues(a, b) ==
  IF a.status # b.status
    THEN IF a.status = "in_season" THEN -1 ELSE 1
    ELSE IF a.has_record /\ b.has_record
      THEN Sign(CompareWinPct(a.user_record, b.user_record))
      ELSE 0

\* the length of the run s starts with: s[i] is compared with s[i - 1]
RECURSIVE RunLength(_, _, _)
RunLength(s, descending, i) ==
  IF i > Len(s) THEN Len(s)
  ELSE IF descending = (CompareLeagues(s[i], s[i - 1]) < 0)
    THEN RunLength(s, descending, i + 1)
    ELSE i - 1

Reverse(s) == [i \in DOMAIN s |-> s[Len(s) + 1 - i]]

\* where binary insertion puts the pivot among the first n elements of s
RECURSIVE InsertionPoint(_, _, _, _)
InsertionPoint(s, pivot, left, right) ==
  IF left >= right THEN left
  ELSE LET mid == left + ((right - left) \div 2)
       IN IF CompareLeagues(pivot, s[mid + 1]) < 0
            THEN InsertionPoint(s, pivot, left, mid)
            ELSE InsertionPoint(s, pivot, mid + 1, right)

\* the elements of s from the one numbered start (from 0) are inserted
RECURSIVE BinaryInsertionSort(_, _)
BinaryInsertionSort(s, start) ==
  IF start >= Len(s) THEN s
  ELSE LET at == InsertionPoint(s, s[start + 1], 0, start)
       IN BinaryInsertionSort(
            SubSeq(s, 1, at) \o <<s[start + 1]>> \o SubSeq(s, at + 1, start)
              \o SubSeq(s, start + 2, Len(s)),
            start + 1)

\* enrichedLeagues.sort(comparator) (tools.ts 140)
SortedLeagues(s) ==
  IF Len(s) < 2 THEN s
  ELSE LET descending == CompareLeagues(s[2], s[1]) < 0
           n == RunLength(s, descending, 3)
           run == IF descending
                    THEN Reverse(SubSeq(s, 1, n)) \o SubSeq(s, n + 1, Len(s))
                    ELSE s
       IN BinaryInsertionSort(run, n)

InitSort ==
  /\ InitPlayers /\ InitQuery /\ InitAgg
  /\ disk = [x \in Paths |-> NoFile]
  /\ \E n \in 0..MaxSorted : \E ls \in [1..n -> EnrichedLeagues] :
       fin = [fn |-> "sort", leagues |-> ls]
  /\ fout = NoOutput

SortDiscovered ==
  /\ fin.fn = "sort" /\ fout = NoOutput
  /\ fout' = [fn |-> "sort", value |-> SortedLeagues(fin.leagues)]
  /\ UNCHANGED <<playerVars, queryVars, aggVars, fin>>

SpecSort == InitSort /\ [][SortDiscovered]_vars

\* how many times league x occurs in the list s
Occurrences(s, x) == Cardinality({i \in DOMAIN s : s[i] = x})

\* C31: in the order discoverUserLeagues produces, every league that is
\* in_season precedes every league of another status, and the leagues are
\* those of the discovered list.
C31_InSeasonFirst ==
  fout.fn = "sort" =>
    /\ Len(fout.value) = Len(fin.leagues)
    /\ \A x \in EnrichedLeagues : Occurrences(fout.value, x) = Occurrences(fin.leagues, x)
    /\ \A i \in DOMAIN fout.value, j \in DOMAIN fout.value :
         i < j /\ fout.value[j].status = "in_season" => fout.value[i].status = "in_season"

\* a list of leagues pre_draft, complete, in_season, drafting, in which the
\* comparator ranks the first two each after the other, comes out with the
\* league in_season first
C31_Witness ==
  /\ fout.fn = "sort" /\ Len(fin.leagues) = 4
  /\ fin.leagues[1].status = "pre_draft" /\ fin.leagues[2].status = "complete"
  /\ fin.leagues[3].status = "in_season" /\ fin.leagues[4].status = "drafting"
  /\ fout.value[1].status = "in_season"

(***************************************************************************)
(* The discovery of the leagues at the head of the aggregations (SpecAgg). *)
(***************************************************************************)
DiscoveringTools == {"discoverUserLeagues", "getCrossLeagueMatchups",
                     "getMultiRosterAnalysis", "getWaiverTargets"}
NoTaskBegun ==
  \A l \in Procs : pc[l] = "idle" /\ inflight[l] = {} /\ op[l] = "none"

\* C32: discoverUserLeagues, getCrossLeagueMatchups, getMultiRosterAnalysis
\* and getWaiverTargets await getUserLeagues once, when they are called, and
\* no league task begins before it has returned; when it throws, the tool
\* throws an error whose message holds the message of the cause, and no
\* league task has begun or begins.
C32_DiscoveryOnceAndFirst ==
  [][/\ apc' = "discover" /\ apc # "discover" => apc = "idle" /\ NoTaskBegun
     /\ apc # "idle" => apc' # "idle"
     /\ apc = "discover" => tool \in DiscoveringTools /\ NoTaskBegun
     /\ tool' \in DiscoveringTools /\ (\E l \in Procs : pc[l] = "idle" /\ pc'[l] # "idle")
          => apc \notin {"idle", "discover"} /\ leagues # {}
     /\ apc = "discover" /\ apc' # "discover" /\ aggResult'.kind # "ok"
          => \/ apc' = "fanout" /\ leagues' # {} /\ aggResult' = aggResult
             \/ /\ apc' = "done"
                /\ aggResult'.kind = "error"
                /\ Cause \in Range(aggResult'.message)
                /\ leagues' = {}
                /\ NoTaskBegun'
     /\ apc = "done" /\ leagues = {} => NoTaskBegun']_vars

\* the getUserLeagues of getWaiverTargets has thrown: the tool has thrown and
\* no league task has begun
C32_Witness ==
  /\ tool = "getWaiverTargets"
  /\ configured
  /\ apc = "done"
  /\ aggResult.kind = "error"
  /\ Cause \in Range(aggResult.message)
  /\ leagues = {}
  /\ NoTaskBegun

(***************************************************************************)
(* SpecManage: managePlayerCache (tools.ts 1077-1137) with its status,     *)
(* refresh and clear actions, next to callers that load the snapshot from  *)
(* the file, callers of the query cache and SleeperAPI.clearCache.         *)
(***************************************************************************)
Never == [null |-> TRUE, time |-> 0]
At(t) == [null |-> FALSE, time |-> t]
\* PlayerCacheStatus (player-cache.ts 59-65, 69-84)
Status(e, l, x, n) ==
  [kind |-> "status", exists |-> e, lastUpdated |-> l, isExpired |-> x,
   playerCount |-> n]

\* managePlayerCache('status'): getPlayerCacheStatus is awaited (tools.ts
\* 1080-1081, sleeper-api.ts 202-204), up to the await of fs.stat
getCacheStatus(p) ==
  /\ Resting(p)
  /\ inflight[p] = {}
  /\ op' = [op EXCEPT ![p] = "status"]
  /\ pc' = [pc EXCEPT ![p] = "statusStat"]
  /\ result' = [result EXCEPT ![p] = None]
  /\ disturbed' = [disturbed EXCEPT ![p] = FALSE]
  /\ playersData' = [playersData EXCEPT ![p] = NoMap]
  /\ buf' = [buf EXCEPT ![p] = NoFile]
  /\ UNCHANGED <<now, disk, playersCache, fd, off, faults, refreshed>>
  /\ UNCHANGED <<queryVars, aggVars, fnVars>>

CountedWhenExpired(f, t) ==
  IF ~f.exists THEN Status(FALSE, Never, TRUE, 0)
  ELSE Status(TRUE, At(f.mtime), IsExpired(t, f.mtime), Len(f.content) - 1)
\* what getCacheStatus knows after fs.stat of file f at time t (player-cache.ts
\* 45-52, 76-84)
Statted(f, t) ==
  IF ~f.exists THEN Status(FALSE, Never, TRUE, 0)
  ELSE Status(TRUE, At(f.mtime), IsExpired(t, f.mtime), 0)

\* getCacheStatus: fs.stat has settled; an expired or a missing file is
\* reported at once (player-cache.ts 45-52, 69-84)
StatusStat(p) ==
  /\ pc[p] = "statusStat"
  /\ result' = [result EXCEPT ![p] = Statted(disk[cacheFilePath], now)]
  /\ pc' = [pc EXCEPT ![p] = IF Statted(disk[cacheFilePath], now).isExpired
                               THEN "done" ELSE "statusCount"]
  /\ UNCHANGED <<now, disk, playersCache, op, playersData, buf, fd, off, faults,
                 disturbed, refreshed>>
  /\ UNCHANGED <<queryVars, aggVars, fnVars>>

\* getCacheStatus: readFile and JSON.parse for the count; a file that cannot
\* be read or parsed is reported as expired (player-cache.ts 53-75)
StatusCount(p) ==
  /\ pc[p] = "statusCount"
  /\ result' = [result EXCEPT ![p] =
       IF disk[cacheFilePath].exists /\ Parseable(disk[cacheFilePath].content)
         THEN [result[p] EXCEPT
                 !.playerCount = Cardinality(DOMAIN Parse(disk[cacheFilePath].content))]
         ELSE [result[p] EXCEPT !.isExpired = TRUE]]
  /\ pc' = [pc EXCEPT ![p] = "done"]
  /\ UNCHANGED <<now, disk, playersCache, op, playersData, buf, fd, off, faults,
                 disturbed, refreshed>>
  /\ UNCHANGED <<queryVars, aggVars, fnVars>>

\* managePlayerCache: 'status' awaits getCacheStatus, 'refresh' and 'clear'
\* both await refreshPlayerCache (tools.ts 1079-1128)
managePlayerCache(p) ==
  \/ getCacheStatus(p)
  \/ refreshCache(p)

ManageStep(p) ==
  \/ managePlayerCache(p)
  \/ StatusStat(p)
  \/ StatusCount(p)
  \/ ClearUnlink(p)
  \/ ClearSet(p)
  \/ loadPlayersFromCache(p)
  \/ Stat(p)
  \/ StatusRead(p)
  \/ LoadRead(p)
  \/ LoadSet(p)
  \/ getUserLeagues(p)
  \/ FetcherReturns(p)

NextManage ==
  \/ \E p \in Procs : ManageStep(p)
  \/ clearCache
  \/ Tick

SpecManage == Init /\ [][NextManage]_vars

\* the status of file f at time t
ExpectedStatus(f, t) ==
  IF ~f.exists THEN Status(FALSE, Never, TRUE, 0)
  ELSE IF IsExpired(t, f.mtime) \/ ~Parseable(f.content)
    THEN Status(TRUE, At(f.mtime), TRUE, 0)
    ELSE Status(TRUE, At(f.mtime), FALSE, Cardinality(DOMAIN Parse(f.content)))

StatusReturned(p) == op[p] = "status" /\ pc[p] = "done"

\* C33: no step of getCacheStatus changes the file or the snapshot in memory.
\* What it returns is expired with a count of 0 when the file is missing
\* (which it reports as not existing and never updated), does not parse or is
\* older than 24 hours, and otherwise not expired with the number of records
\* of the file; when the file changed during the call the report is still
\* one of these.
C33_StatusReadsOnly ==
  [][\A p \in Procs :
       /\ op'[p] = "status" /\ pc'[p] # pc[p] =>
            disk' = disk /\ playersCache' = playersCache
       /\ StatusReturned(p)' =>
            /\ ~disturbed'[p] => result'[p] = ExpectedStatus(disk'[cacheFilePath], now')
            /\ result'[p].isExpired => result'[p].playerCount = 0
            /\ ~result'[p].exists => result'[p].isExpired
            /\ result'[p].exists <=> result'[p].lastUpdated # Never]_vars

\* a status of a current file of MaxPlayers records is returned while the
\* snapshot is in memory
C33_Witness ==
  \E p \in Procs :
    /\ StatusReturned(p)
    /\ ~disturbed[p]
    /\ playersCache.held
    /\ ~result[p].isExpired
    /\ result[p].playerCount = MaxPlayers

(***************************************************************************)
(* getPlayers calls that miss the cache (Spec).                            *)
(***************************************************************************)
\* the getPlayers call of caller p has ended after the upstream answered it
FetchedAndEnded(p) ==
  /\ op[p] = "getPlayers"
  /\ pc[p] = "done"
  /\ playersData[p] # NoMap

\* C34: when no disk call fails, every getPlayers call that missed the cache
\* and whose upstream request was answered returns the record set it
\* fetched, whatever the other callers' saves do to the temporary file.
C34_ConcurrentMissesAllReturn ==
  \A p \in Procs :
    FetchedAndEnded(p) /\ faults = 0 =>
      result[p].kind = "ok" /\ result[p].map = playersData[p]

\* C36: a getPlayers call whose upstream request was answered returns the
\* fetched record set also when its save fails, no other caller being at
\* work.
C36_SaveErrorNotFatal ==
  \A p \in Procs :
    FetchedAndEnded(p) /\ (\A q \in Procs \ {p} : op[q] = "none") =>
      result[p].kind = "ok" /\ result[p].map = playersData[p]

(***************************************************************************)
(* enrichPlayers (tools.ts 372-410) awaits SleeperAPI.getPlayers and then  *)
(* getPlayersByIds, whose loadPlayersFromCache tests playersCache before   *)
(* its first await of a disk call (player-cache.ts 90-92).  From the       *)
(* continuation in which getPlayers returns to that test no disk call or   *)
(* request is awaited, so the test sees the state that step leaves: no     *)
(* continuation of another caller's disk call runs in between.             *)
(***************************************************************************)
\* the getPlayers call of caller p returns a record set in this step
GetPlayersReturns(p) ==
  /\ op'[p] \in EnrichingOps
  /\ pc'[p] = "done"
  /\ result'[p].kind = "ok"
  /\ pc[p] # "done" \/ result[p] # result'[p]

\* C35: when the getPlayers step of enrichPlayers returns a snapshot, the
\* ids are resolved against that snapshot: an id the snapshot holds gets the
\* entry of its record and not the placeholder, whatever a concurrent
\* refreshPlayerCache / clearCache has done or is about to do.
C35_ResolvedAgainstReturnedSnapshot ==
  [][\A p \in Procs : GetPlayersReturns(p) =>
       /\ playersCache'.held
       /\ \A ids \in IdLists : \A j \in DOMAIN ids :
            ids[j] \in DOMAIN result'[p].map =>
              EnrichPlayers(ids, <<>>, playersCache'.map)[j]
                = Enriched(ids[j], result'[p].map[ids[j]], <<>>)]_vars

\* a getPlayers call has returned the record set it fetched while another
\* caller's refresh has unlinked the file and is about to drop the snapshot
C35_Witness ==
  \E p \in Procs, q \in Procs :
    /\ op[p] = "getPlayers" /\ pc[p] = "done"
    /\ result[p].kind = "ok" /\ result[p].via = "upstream"
    /\ playersCache.held /\ playersCache.map = result[p].map
    /\ op[q] = "refresh" /\ pc[q] = "refreshSet"

(***************************************************************************)
(* The leagues discoverUserLeagues returns (SpecAgg).                      *)
(***************************************************************************)
RosterFetchFailed(l) == pc[l] = "done" /\ result[l].via = "fetch"

\* C37: when discoverUserLeagues returns after a successful discovery, its
\* result holds every discovered league, as many leagues as were discovered;
\* a league whose roster fetch failed is among them, with no roster data.
C37_EveryDiscoveredLeagueReturned ==
  tool = "discoverUserLeagues" /\ apc = "done" /\ leagues # {} =>
    /\ aggResult.kind = "ok"
    /\ aggResult.included = leagues
    /\ Cardinality(aggResult.included) = Cardinality(leagues)
    /\ \A l \in leagues :
         /\ result[l].kind = "ok"
         /\ RosterFetchFailed(l) => result[l].map = NoMap /\ l \in aggResult.included

\* two leagues were discovered, the roster fetch of one of them failed and
\* the result holds both
C37_Witness ==
  /\ tool = "discoverUserLeagues" /\ apc = "done"
  /\ Cardinality(leagues) = 2
  /\ \E l \in leagues, k \in leagues : RosterFetchFailed(l) /\ ~RosterFetchFailed(k)
  /\ aggResult.included = leagues

(***************************************************************************)
(* The two caches (SpecManage).                                            *)
(***************************************************************************)
\* caller p takes a step of managePlayerCache
ManageActs(p) ==
  /\ op'[p] \in {"status", "refresh"}
  /\ pc'[p] # pc[p] \/ op'[p] # op[p]

\* the step of SleeperAPI.clearCache: the query cache loses its entries
QueryCacheCleared ==
  /\ \E k \in Keys : cache[k].has
  /\ \A k \in Keys : ~cache'[k].has

\* C38: no step of managePlayerCache (status, refresh, clear) changes the
\* query cache, and SleeperAPI.clearCache changes neither the file of the
\* player snapshot nor the snapshot in memory.
C38_CachesIndependent ==
  [][/\ \A p \in Procs : ManageActs(p) => cache' = cache
     /\ QueryCacheCleared => disk' = disk /\ playersCache' = playersCache]_vars

\* the query cache has been cleared after a query had filled it, the player
\* snapshot is in memory and in its file, and a status has been returned
C38_Witness ==
  \E p \in Procs, q \in Procs :
    /\ op[p] = "query" /\ pc[p] = "done" /\ result[p].kind = "ok"
    /\ \A k \in Keys : ~cache[k].has
    /\ playersCache.held
    /\ disk[cacheFilePath].exists
    /\ StatusReturned(q)

(***************************************************************************)
(* SpecAggLive: the aggregation when every upstream request is answered or *)
(* fails (at the latest by the timeout of 10 seconds the client is created *)
(* with, sleeper-api.ts 19-25), every disk call completes and every        *)
(* continuation runs.                                                      *)
(***************************************************************************)
\* the requests and continuations of the tool itself
ToolStep ==
  \/ DiscoveryReturns
  \/ DiscoveryFails
  \/ Join
  \/ WaiverJoin
  \/ WaiverPlayers
  \/ TrendingReturns
  \/ TrendingFails

SpecAggLive ==
  /\ SpecAgg
  /\ WF_vars(ToolStep)
  /\ \A l \in Procs : WF_vars(TaskStep(l))

\* C39: under SpecAggLive a tool that was called returns a result or throws
\* an error, for every number of leagues; and a league task that has not
\* ended can always take its next step, whatever the other tasks of the
\* fan-out have done: it waits for none of them.
C39_AggregationReturns ==
  /\ (apc # "idle") ~> (apc = "done")
  /\ [](\A l \in leagues : apc = "fanout" /\ pc[l] # "done" => ENABLED TaskStep(l))

\* getMultiRosterAnalysis has returned for NumProcs leagues, one of whose
\* tasks failed
C39_Witness ==
  /\ tool = "getMultiRosterAnalysis"
  /\ apc = "done"
  /\ Cardinality(leagues) = NumProcs
  /\ aggResult.kind = "ok"
  /\ aggResult.included # leagues

====
